---- MODULE Spec2Model ----
(***************************************************************************)
(* A model of CASort: the clover add-back resolver, the calibration file   *)
(* loader, the crosstalk graph and matrix builders and loader, the generic *)
(* "CA" file reader, the gain-matching tool with its background            *)
(* subtraction, and the sorter with its threaded histograms.               *)
(*                                                                         *)
(* Each component has its own specification (SpecAddBack, SpecCal, ...).   *)
(* The variables of the components a specification does not run stay at    *)
(* their idle values.                                                      *)
(*                                                                         *)
(* Numbers.  The program computes in double. The model computes in         *)
(* integers: energies in keV (add-back) or in 1/100 keV (calibration),     *)
(* times in ns, peak positions in histogram bins.  NaN is one value outside *)
(* every range the model computes in, with the IEEE rule that every        *)
(* ordered comparison with NaN is false and arithmetic on NaN gives NaN.   *)
(***************************************************************************)
EXTENDS Integers, Sequences, FiniteSets, TLC

VARIABLES
    \* ---- CAAddBack::GetAddBackEnergy (src/src/Utilities.cpp:146-192)
    xtalE,          \* the argument xtalE: energies of the 4 crystals
    xtalT,          \* the argument xtalT: times of the 4 crystals
    finalE,         \* the value returned
    abPc,           \* "call" before the call, "done" after it
    \* ---- GainMatch main (src/unnamed/part_008:65-297)
    peaks,          \* reference_peaks / input_peaks: per dataset and channel, sorted
    matched_peaks,  \* matched_peaks_ref / matched_peaks_input
    fitted_peaks,   \* fitted_peaks_ref / fitted_peaks_input
    unmatched_msgs, \* the <<dataset, channel>> of each "No matching peaks found" line
    fits_run,       \* the <<dataset, channel>> whose two refinement fits were run
    gain_lines,     \* the "Channel c: Gain = .., Offset = .." lines printed, in order
    skip_msgs,      \* the channels of the "Missing fitted peaks, skipping" lines
    gmPc,           \* the loop main is in: "search", "pair", "fit", "solve", "done"
    gmDs,           \* that loop's dataset
    gmCh,           \* that loop's channel
    \* ---- CACalibration (src/src/CACalibration.cpp)
    calFile,        \* the lines of the calibration file
    calNewline,     \* whether the file's last line ends with a newline
    linear_params,  \* MakeCalibration: the (offset, slope) LoadLinearCalParams returned
    calPos,         \* LoadSplineCorrParams: lines of calfile consumed so far
    calEof,         \* calfile's eofbit
    calFail,        \* calfile's failbit
    line,           \* LoadSplineCorrParams: the string line
    lineNo,         \* the number of the file line whose text line holds (0: none)
    skipped_linear, \* LoadSplineCorrParams: the flag of the outer loop's body
    knots,          \* knot_x / knot_y, each knot with the file line it was read from
    cal_spline,     \* MakeCalibration: the knots of the spline returned, <<>> for TSpline3()
    calOut,         \* the last evaluation of the calibration function
    calPc,          \* "linear", "outer", "inner", "post", "close", "made"
    \* ---- CACrosstalkCorrection::BuildCrosstalkMatrix (src/unnamed/part_009:351-372)
    fits,           \* per pair fitted so far: whether the fit converged, and its result
    xtalkMatrix,    \* the 4x4 matrix being assembled
    xbI,            \* the loop index i over the 6 crystal pairs
    xbPc,           \* "build", "returned", "threw"
    \* ---- CAUtilities::ReadCAFile and its two callers
    caFile,         \* the lines of the file
    caConsumer,     \* the caller: "xtalk" (LoadCrosstalkMatrices) or "gain"
    raw_data,       \* what ReadCAFile returned: sections of rows of numbers
    caUB,           \* whether ReadCAFile called data.back() on an empty data
    xtalkMatrices,  \* LoadCrosstalkMatrices: the matrices returned
    gainshiftFunctions, \* CAGainCorrection::MakeCorrections: per module, the
                    \* (offset, gain) each closure captured, in push_back order
    caPc,           \* "write", "read", "load", "returned", "threw", "crashed"
    xtalk_matrices, \* WriteCrosstalkMatrices: the list of matrices to write
    corrApplied,    \* the last call of a MakeCorrections closure: detector,
                    \* measured and corrected energies (<<>>: none yet)
    \* ---- AddBack::GetAddBackEnergy, the vector variant (src/src/AddBack.cpp:10-57)
    crystal_energies, \* the argument crystal_energies
    crystal_times,  \* the argument crystal_times
    highest_energy_index, \* the primary found (source index + 1; 0: none)
    final_energy,   \* the value returned
    mult,           \* the add-back multiplicity counter
    avPc,           \* "call" before the call, "done" after it
    \* ---- the sorter's detector loop (src/unnamed/part_007:352-418)
    det,            \* the detector of the loop turn
    cc_amp_val,     \* clover_cross.amplitude of the detector's 4 channels
    cc_cht_val,     \* clover_cross.channel_time of the detector's 4 channels
    cc_xtal_E,      \* the vector cc_xtal_E after the crystal loop
    cc_xtal_T,      \* the vector cc_xtal_T after the crystal loop
    fills,          \* the Fill calls made, in order: [hist, x, y]
    soPc,           \* "event" before the loop turn, "filled" after it
    \* ---- the sorter's event loop and the writing of a histogram
    \*      (src/unnamed/part_007:229-485, src/include/TCAHistogram.hpp:32-36)
    entries,        \* the tree: for each entry the bin its event fills
    cuts,           \* the entries after which TTreeProcessorMT ends a chunk
    claimed,        \* the first entries of the chunks handed to a worker so far
    pos,            \* per worker: the entry its while loop is at (0: no chunk)
    lim,            \* per worker: the last entry of its chunk
    handle,         \* per worker: the slot GetThreadLocalPtr gave it (-1: none)
    slots,          \* fHistogram: per slot (0 is main's) the counts of each bin
    isMerged,       \* whether fHistogram.Merge() has run
    processedEntries, \* the atomic counter
    lastShown,      \* the count DisplayProgressBar printed last (-1: none)
    progressPc,     \* progressBarThread: "poll", "done"
    mainPc,         \* main: "process", "join", "write", "done"
    outfile,        \* the histogram written to the output file (<<>>: none)
    cycle,          \* the number of times the histogram has been written to the file
    \* ---- CACrosstalkCorrection::BuildCrosstalkGraph (src/unnamed/part_009:262-325)
    xgHist,         \* the argument hist: the count of each (x, y) bin
    graph,          \* the points of the TGraphErrors, in order
    xgPc,           \* "call" before the call, "done" after it
    \* ---- GainMatch BackgroundSubtraction (src/unnamed/part_008:48-63)
    bgBefore,       \* reference_hist and input_hist at the call: per histogram
                    \* the content of each (amplitude bin, channel bin)
    bgHists,        \* the two histograms now
    bgPc            \* "call" before the call, "done" after it

abVars == <<xtalE, xtalT, finalE, abPc>>

gmVars == <<peaks, matched_peaks, fitted_peaks, unmatched_msgs, fits_run,
            gain_lines, skip_msgs, gmPc, gmDs, gmCh>>

calVars == <<calFile, calNewline, linear_params, calPos, calEof, calFail, line,
             lineNo, skipped_linear, knots, cal_spline, calOut, calPc>>

xbVars == <<fits, xtalkMatrix, xbI, xbPc>>

caVars == <<caFile, caConsumer, raw_data, caUB, xtalkMatrices, gainshiftFunctions,
            caPc, xtalk_matrices, corrApplied>>

avVars == <<crystal_energies, crystal_times, highest_energy_index, final_energy,
            mult, avPc>>

soVars == <<det, cc_amp_val, cc_cht_val, cc_xtal_E, cc_xtal_T, fills, soPc,
            entries, cuts, claimed, pos, lim, handle, slots, isMerged,
            processedEntries, lastShown, progressPc, mainPc, outfile, cycle>>

\* The variables of the event loop
loopVars == <<entries, cuts, claimed, pos, lim, handle, slots, isMerged,
              processedEntries, lastShown, progressPc, mainPc, outfile, cycle>>

htVars == <<xgHist, graph, xgPc, bgBefore, bgHists, bgPc>>

vars == <<abVars, gmVars, calVars, xbVars, caVars, avVars, soVars, htVars>>

----------------------------------------------------------------------------
(* IEEE doubles with NaN *)

\* NaN: a value no computation of the model produces from numbers
NaN == 0 - 1048576

IsNaN(a) == a = NaN

\* a < b, a <= b, a > b, a >= b on doubles: false when either side is NaN
Lt(a, b) == a # NaN /\ b # NaN /\ a < b
Le(a, b) == a # NaN /\ b # NaN /\ a <= b
Gt(a, b) == Lt(b, a)
Ge(a, b) == Le(b, a)

\* a + b, a - b and fabs(a) on doubles
Add(a, b) == IF a = NaN \/ b = NaN THEN NaN ELSE a + b
Sub(a, b) == IF a = NaN \/ b = NaN THEN NaN ELSE a - b
Fabs(a) == IF a = NaN THEN NaN ELSE IF a < 0 THEN 0 - a ELSE a

----------------------------------------------------------------------------
(* The values a component's variables keep while it is not run *)

AddBackIdle ==
    /\ xtalE = <<>>
    /\ xtalT = <<>>
    /\ finalE = 0
    /\ abPc = "idle"

GainMatchIdle ==
    /\ peaks = <<>>
    /\ matched_peaks = <<>>
    /\ fitted_peaks = <<>>
    /\ unmatched_msgs = {}
    /\ fits_run = {}
    /\ gain_lines = <<>>
    /\ skip_msgs = {}
    /\ gmPc = "idle"
    /\ gmDs = "ref"
    /\ gmCh = 0

CalIdle ==
    /\ calFile = <<>>
    /\ calNewline = TRUE
    /\ linear_params = <<0, 0>>
    /\ calPos = 0
    /\ calEof = FALSE
    /\ calFail = FALSE
    /\ line = <<>>
    /\ lineNo = 0
    /\ skipped_linear = FALSE
    /\ knots = <<>>
    /\ cal_spline = <<>>
    /\ calOut = <<>>
    /\ calPc = "idle"

XtalkBuildIdle ==
    /\ fits = <<>>
    /\ xtalkMatrix = [i \in 0 .. 3 |-> [j \in 0 .. 3 |-> 0]]
    /\ xbI = 0
    /\ xbPc = "idle"

CrosstalkGraphIdle ==
    /\ xgHist = <<>>
    /\ graph = <<>>
    /\ xgPc = "idle"

BackgroundIdle ==
    /\ bgBefore = <<>>
    /\ bgHists = <<>>
    /\ bgPc = "idle"

HistToolsIdle == CrosstalkGraphIdle /\ BackgroundIdle

AddBackVectorIdle ==
    /\ crystal_energies = <<>>
    /\ crystal_times = <<>>
    /\ highest_energy_index = 0
    /\ final_energy = 0
    /\ mult = 0
    /\ avPc = "idle"

EventLoopIdle ==
    /\ entries = <<>>
    /\ cuts = {}
    /\ claimed = {}
    /\ pos = <<>>
    /\ lim = <<>>
    /\ handle = <<>>
    /\ slots = <<>>
    /\ isMerged = FALSE
    /\ processedEntries = 0
    /\ lastShown = 0 - 1
    /\ progressPc = "idle"
    /\ mainPc = "idle"
    /\ outfile = <<>>
    /\ cycle = 0

DetectorLoopIdle ==
    /\ det = 0
    /\ cc_amp_val = <<>>
    /\ cc_cht_val = <<>>
    /\ cc_xtal_E = <<>>
    /\ cc_xtal_T = <<>>
    /\ fills = <<>>
    /\ soPc = "idle"

SorterIdle == DetectorLoopIdle /\ EventLoopIdle

CAFileIdle ==
    /\ caFile = <<>>
    /\ caConsumer = "none"
    /\ raw_data = <<>>
    /\ caUB = FALSE
    /\ xtalkMatrices = <<>>
    /\ gainshiftFunctions = <<>>
    /\ caPc = "idle"
    /\ xtalk_matrices = <<>>
    /\ corrApplied = <<>>

----------------------------------------------------------------------------
(* CAAddBack: the add-back resolver *)

kAddBackThreshold == 150
kAddBackWindow == 150

\* The crystals of a clover, indexed as the C++ arrays are
Xtals == 0 .. 3

\* Bounds of the inputs: energies around the threshold, times around the window
MaxEnergySteps == 2
MaxTimeSteps == 2

EnergyVals == {NaN, 0} \cup {kAddBackThreshold - 1 + i : i \in 0 .. MaxEnergySteps}

TimeVals == {NaN} \cup {i * (kAddBackWindow \div 2) : i \in 0 .. MaxTimeSteps}

\* The first loop (lines 156-163): the running maximum starts at the threshold
\* and a crystal replaces it when its energy is >= the running maximum.
\* The state of the scan is <<primaryE, primaryIdx>>.
RECURSIVE FindPrimary(_, _, _)
FindPrimary(E, xtal, st) ==
    IF xtal > 3 THEN st
    ELSE FindPrimary(E, xtal + 1,
                     IF Ge(E[xtal], st[1]) THEN <<E[xtal], xtal>> ELSE st)

\* The second loop (lines 168-177): every crystal but the primary is added
\* when it is above the threshold and inside the window.
RECURSIVE SumOthers(_, _, _, _, _)
SumOthers(E, T, primaryIdx, xtal, acc) ==
    IF xtal > 3 THEN acc
    ELSE SumOthers(E, T, primaryIdx, xtal + 1,
            IF xtal = primaryIdx THEN acc
            ELSE IF Gt(E[xtal], kAddBackThreshold)
                    /\ Lt(Fabs(Sub(T[primaryIdx], T[xtal])), kAddBackWindow)
                 THEN Add(acc, E[xtal])
                 ELSE acc)

\* A plausible slip: the window test written <= instead of <
RECURSIVE SumOthersInclusive(_, _, _, _, _)
SumOthersInclusive(E, T, primaryIdx, xtal, acc) ==
    IF xtal > 3 THEN acc
    ELSE SumOthersInclusive(E, T, primaryIdx, xtal + 1,
            IF xtal = primaryIdx THEN acc
            ELSE IF Gt(E[xtal], kAddBackThreshold)
                    /\ Le(Fabs(Sub(T[primaryIdx], T[xtal])), kAddBackWindow)
                 THEN Add(acc, E[xtal])
                 ELSE acc)

GetAddBackEnergyInclusive(E, T) ==
    LET st == FindPrimary(E, 0, <<kAddBackThreshold, -1>>)
    IN  IF st[2] > -1 THEN SumOthersInclusive(E, T, st[2], 0, st[1]) ELSE 0

\* The first loop with the test !(xtalE[xtal] < primaryE), which a NaN passes
RECURSIVE FindPrimaryUnordered(_, _, _)
FindPrimaryUnordered(E, xtal, st) ==
    IF xtal > 3 THEN st
    ELSE FindPrimaryUnordered(E, xtal + 1,
                     IF ~Lt(E[xtal], st[1]) THEN <<E[xtal], xtal>> ELSE st)

GetAddBackEnergyUnordered(E, T) ==
    LET st == FindPrimaryUnordered(E, 0, <<kAddBackThreshold, -1>>)
    IN  IF st[2] > -1 THEN SumOthers(E, T, st[2], 0, st[1]) ELSE 0

\* double CAAddBack::GetAddBackEnergy(std::array<double,4>, std::array<double,4>)
GetAddBackEnergy(E, T) ==
    LET st == FindPrimary(E, 0, <<kAddBackThreshold, -1>>)
        primaryE == st[1]
        primaryIdx == st[2]
    IN  IF primaryIdx > -1
        THEN SumOthers(E, T, primaryIdx, 0, primaryE)
        ELSE 0

InitAddBack ==
    /\ AddBackVectorIdle
    /\ HistToolsIdle
    /\ SorterIdle
    /\ GainMatchIdle
    /\ CalIdle
    /\ XtalkBuildIdle
    /\ CAFileIdle
    /\ xtalE \in [Xtals -> EnergyVals]
    /\ xtalT \in [Xtals -> TimeVals]
    /\ finalE = 0
    /\ abPc = "call"

\* One call of GetAddBackEnergy on the event's arrays
AddBackCall ==
    /\ abPc = "call"
    /\ finalE' = GetAddBackEnergy(xtalE, xtalT)
    /\ abPc' = "done"
    /\ UNCHANGED <<xtalE, xtalT>>
    /\ UNCHANGED <<gmVars, calVars, xbVars, caVars, avVars, soVars, htVars>>

NextAddBack == AddBackCall

SpecAddBack == InitAddBack /\ [][NextAddBack]_vars

----------------------------------------------------------------------------
(* GainMatch: peak pairing, refinement fit and gain solve *)

\* kNumChannels is 16 in the tool; every loop of main treats the channels
\* independently, and the model runs NumChannels of them.
NumChannels == 2

Channels == 0 .. (NumChannels - 1)

\* The two histograms main loops over, in the order of its initializer lists
Datasets == {"ref", "input"}

\* kPeakCentroidRatio = 2614.511 / 1460.820, as a fraction of integers
kPeakCentroidRatioNum == 2614511
kPeakCentroidRatioDen == 1460820

\* kPeakRatioTolerance = 0.0025 = 1 / 400
kPeakRatioToleranceDen == 400

\* The peak lists TSpectrum::Search may return for a channel, after std::sort:
\* no peak, two peaks with no pair in tolerance, one pair in tolerance, and
\* four peaks with two pairs in tolerance ((19,34) closer than (24,43)).
PeakLists == {<<>>, <<19, 24>>, <<19, 34>>, <<19, 24, 34, 43>>}

\* The refined centroid may differ from the search position by up to FitSpread
\* bins (SetParLimits keeps it within kPeakSigma of the position).
FitSpread == 1

FitShifts == {0 - FitSpread, FitSpread}

Abs(a) == IF a < 0 THEN 0 - a ELSE a

\* |ratio - kPeakCentroidRatio| for ratio = r[1] / r[2], times r[2] * kPeakCentroidRatioDen
DevNum(r) == Abs(r[1] * kPeakCentroidRatioDen - kPeakCentroidRatioNum * r[2])

\* std::abs(ref_ratio - kPeakCentroidRatio) / kPeakCentroidRatio < kPeakRatioTolerance
\* (line 176), i.e. DevNum(r) * 400 < kPeakCentroidRatioNum * r[2], in integers
InTolerance(r) ==
    DevNum(r) <= (kPeakCentroidRatioNum * r[2] - 1) \div kPeakRatioToleranceDen

\* std::abs(r - kPeakCentroidRatio) < std::abs(b - kPeakCentroidRatio) (line 178)
Closer(r, b) == DevNum(r) * b[2] < DevNum(b) * r[2]

\* The body of the inner loop (lines 175-187) for the pair (j, i) of list pk.
\* st = [best_ratio, best_pair]; best_ratio is a fraction <<num, den>>.
PairStep(pk, i, j, st) ==
    LET ref_ratio == <<pk[i], pk[j]>>
    IN  IF InTolerance(ref_ratio)
        THEN [best_ratio |-> IF Closer(ref_ratio, st.best_ratio)
                             THEN ref_ratio ELSE st.best_ratio,
              \* line 186: outside the "closer" test, inside the tolerance test
              best_pair |-> <<pk[j], pk[i]>>]
        ELSE st

\* The two nested loops (lines 171-189): i ascending, j ascending below i.
\* Sequences are 1-based here, so i, j run over 1 .. Len(pk).
RECURSIVE PairLoop(_, _, _, _)
PairLoop(pk, i, j, st) ==
    IF i > Len(pk) THEN st
    ELSE IF j >= i THEN PairLoop(pk, i + 1, 1, st)
    ELSE PairLoop(pk, i, j + 1, PairStep(pk, i, j, st))

\* best_ratio = 0.0, best_pair = (-1.0, -1.0) (lines 167-168), then the loops
BestPair(pk) ==
    PairLoop(pk, 1, 1, [best_ratio |-> <<0, 1>>, best_pair |-> <<-1, -1>>]).best_pair

\* std::array<std::pair<double,double>, N> declared without an initializer:
\* std::pair's default constructor value-initializes both members
ZeroPair == <<0, 0>>

InitGainMatch ==
    /\ AddBackVectorIdle
    /\ HistToolsIdle
    /\ SorterIdle
    /\ AddBackIdle
    /\ CalIdle
    /\ XtalkBuildIdle
    /\ CAFileIdle
    /\ peaks = [ds \in Datasets |-> [ch \in Channels |-> <<>>]]
    /\ matched_peaks = [ds \in Datasets |-> [ch \in Channels |-> ZeroPair]]
    /\ fitted_peaks = [ds \in Datasets |-> [ch \in Channels |-> ZeroPair]]
    /\ unmatched_msgs = {}
    /\ fits_run = {}
    /\ gain_lines = <<>>
    /\ skip_msgs = {}
    /\ gmPc = "search"
    /\ gmDs = "ref"
    /\ gmCh = 0

\* Lines 141-161, one channel: the peaks found are stored sorted
SearchPeaks ==
    /\ gmPc = "search"
    /\ \E pk \in PeakLists : peaks' = [peaks EXCEPT ![gmDs][gmCh] = pk]
    /\ IF gmCh + 1 < NumChannels
       THEN gmCh' = gmCh + 1 /\ gmPc' = "search"
       ELSE gmCh' = 0 /\ gmPc' = "pair"
    /\ UNCHANGED <<matched_peaks, fitted_peaks, unmatched_msgs, fits_run,
                   gain_lines, skip_msgs, gmDs>>
    /\ UNCHANGED <<abVars, calVars, xbVars, caVars, avVars, soVars, htVars>>

\* Lines 164-201, one channel: pair the peaks, store the pair or report
PairPeaks ==
    /\ gmPc = "pair"
    /\ LET best_pair == BestPair(peaks[gmDs][gmCh])
       IN  IF best_pair[1] > 0 /\ best_pair[2] > 0
           THEN /\ matched_peaks' = [matched_peaks EXCEPT ![gmDs][gmCh] = best_pair]
                /\ UNCHANGED unmatched_msgs
           ELSE /\ unmatched_msgs' = unmatched_msgs \cup {<<gmDs, gmCh>>}
                /\ UNCHANGED matched_peaks
    /\ IF gmCh + 1 < NumChannels
       THEN gmCh' = gmCh + 1 /\ gmPc' = "pair" /\ UNCHANGED gmDs
       ELSE /\ gmCh' = 0
            /\ IF gmDs = "ref"
               THEN gmDs' = "input" /\ gmPc' = "search"
               ELSE gmDs' = "ref" /\ gmPc' = "fit"
    /\ UNCHANGED <<peaks, fitted_peaks, fits_run, gain_lines, skip_msgs>>
    /\ UNCHANGED <<abVars, calVars, xbVars, caVars, avVars, soVars, htVars>>

\* Lines 208-260, one dataset of one channel: skip when the matched pair has a
\* negative member, else fit both peaks and store the two centroids
RefineFit ==
    /\ gmPc = "fit"
    /\ LET mp == matched_peaks[gmDs][gmCh]
       IN  IF mp[1] < 0 \/ mp[2] < 0
           THEN UNCHANGED <<fitted_peaks, fits_run>>
           ELSE \E d1 \in FitShifts, d2 \in FitShifts :
                  /\ fitted_peaks' = [fitted_peaks EXCEPT
                                        ![gmDs][gmCh] = <<mp[1] + d1, mp[2] + d2>>]
                  /\ fits_run' = fits_run \cup {<<gmDs, gmCh>>}
    /\ IF gmDs = "ref"
       THEN gmDs' = "input" /\ UNCHANGED <<gmCh, gmPc>>
       ELSE /\ gmDs' = "ref"
            /\ IF gmCh + 1 < NumChannels
               THEN gmCh' = gmCh + 1 /\ gmPc' = "fit"
               ELSE gmCh' = 0 /\ gmPc' = "solve"
    /\ UNCHANGED <<peaks, matched_peaks, unmatched_msgs, gain_lines, skip_msgs>>
    /\ UNCHANGED <<abVars, calVars, xbVars, caVars, avVars, soVars, htVars>>

\* Lines 264-288, one channel: skip when a first fitted peak is negative, else
\* print gain = (ref_high - ref_low) / (input_high - input_low) and
\* offset = ref_low - gain * input_low.  The line is kept as the fraction
\* gain = num / den and offset = offset_num / den.
GainSolve ==
    /\ gmPc = "solve"
    /\ LET fr == fitted_peaks["ref"][gmCh]
           fi == fitted_peaks["input"][gmCh]
       IN  IF fr[1] < 0 \/ fi[1] < 0
           THEN /\ skip_msgs' = skip_msgs \cup {gmCh}
                /\ UNCHANGED gain_lines
           ELSE /\ gain_lines' = Append(gain_lines,
                       [ch |-> gmCh,
                        num |-> fr[2] - fr[1],
                        den |-> fi[2] - fi[1],
                        offset_num |-> fr[1] * (fi[2] - fi[1]) - (fr[2] - fr[1]) * fi[1]])
                /\ UNCHANGED skip_msgs
    /\ IF gmCh + 1 < NumChannels
       THEN gmCh' = gmCh + 1 /\ gmPc' = "solve"
       ELSE gmCh' = 0 /\ gmPc' = "done"
    /\ UNCHANGED <<peaks, matched_peaks, fitted_peaks, unmatched_msgs, fits_run, gmDs>>
    /\ UNCHANGED <<abVars, calVars, xbVars, caVars, avVars, soVars, htVars>>

NextGainMatch == SearchPeaks \/ PairPeaks \/ RefineFit \/ GainSolve

SpecGainMatch == InitGainMatch /\ [][NextGainMatch]_vars

----------------------------------------------------------------------------
(* CACalibration: the calibration file loaders and the calibration function *)

\* kMaxCalibrationEnergy = 7282.92 keV, in 1/100 keV
kMaxCalibrationEnergy == 728292

\* Bounds: the lines of a file, and the size of the spline's correction
MaxLines == 4
MaxSplineCorr == 5

\* A line of text, as far as the loaders look at it: whether it starts with
\* whitespace (lead), and what follows: nothing ("blank"), a '#' ("comment"),
\* two numbers x y ("data"), or something else ("junk").  The line "" is the
\* blank line without leading whitespace.
TextLine(lead, kind, x, y) == [lead |-> lead, kind |-> kind, x |-> x, y |-> y]

EmptyLine == TextLine(FALSE, "blank", 0, 0)

CalLines ==
    { EmptyLine,
      TextLine(TRUE, "blank", 0, 0),
      TextLine(FALSE, "comment", 0, 0),
      TextLine(FALSE, "junk", 0, 0),
      TextLine(FALSE, "data", 0, 0),
      TextLine(FALSE, "data", 0, 1),
      TextLine(FALSE, "data", 0, 2),
      TextLine(FALSE, "data", -2, 1) }

\* The files: up to MaxLines lines; a last line that does not end with a
\* newline has at least one character.
CalFiles ==
    UNION {[1 .. n -> CalLines] : n \in 0 .. MaxLines}

\* line.empty()
IsEmpty(l) == l.kind = "blank" /\ ~l.lead

\* line[0] == '#' on a non-empty line
StartsWithHash(l) == l.kind = "comment" /\ ~l.lead

\* The lambda trim (lines 27-38): leading (and trailing) whitespace removed
Trim(l) == [l EXCEPT !.lead = FALSE]

\* std::istringstream iss(line); iss >> a >> b  (leading whitespace is skipped)
ParsesTwo(l) == l.kind = "data"

\* std::getline(calfile, line) on the stream state st = [pos, eof, fail, line, no].
\* A stream that is not good() fails in the sentry and leaves line as it is; a
\* good stream erases line, and fails with eofbit when no character is left;
\* reading a last line that has no newline succeeds and sets eofbit.
Getline(file, newline, st) ==
    IF st.eof \/ st.fail
    THEN [st EXCEPT !.fail = TRUE, !.ok = FALSE]
    ELSE IF st.pos = Len(file)
    THEN [st EXCEPT !.eof = TRUE, !.fail = TRUE, !.line = EmptyLine, !.no = 0,
                    !.ok = FALSE]
    ELSE [st EXCEPT !.pos = st.pos + 1,
                    !.eof = (st.pos + 1 = Len(file) /\ ~newline),
                    !.line = file[st.pos + 1], !.no = st.pos + 1, !.ok = TRUE]

\* LoadLinearCalParams (lines 88-123): the loop over the lines from line n on.
\* find_first_not_of skips leading whitespace; the first line that is neither
\* blank nor a comment and parses as two numbers gives (offset, slope).
RECURSIVE LoadLinearFrom(_, _)
LoadLinearFrom(file, n) ==
    IF n > Len(file) THEN <<0, 0>>
    ELSE IF file[n].kind = "blank" THEN LoadLinearFrom(file, n + 1)
    ELSE IF file[n].kind = "comment" THEN LoadLinearFrom(file, n + 1)
    ELSE IF ParsesTwo(file[n]) THEN <<file[n].x, file[n].y>>
    ELSE LoadLinearFrom(file, n + 1)

LoadLinearCalParams(file) == LoadLinearFrom(file, 1)

Stream == [pos |-> calPos, eof |-> calEof, fail |-> calFail, line |-> line,
           no |-> lineNo, ok |-> FALSE]

SetStream(st) ==
    /\ calPos' = st.pos
    /\ calEof' = st.eof
    /\ calFail' = st.fail

InitCal ==
    /\ AddBackVectorIdle
    /\ HistToolsIdle
    /\ SorterIdle
    /\ AddBackIdle
    /\ GainMatchIdle
    /\ XtalkBuildIdle
    /\ CAFileIdle
    /\ calFile \in CalFiles
    /\ calNewline \in BOOLEAN
    /\ ~calNewline => Len(calFile) > 0 /\ ~IsEmpty(calFile[Len(calFile)])
    /\ Len(calFile) = 0 => calNewline
    /\ linear_params = <<0, 0>>
    /\ calPos = 0
    /\ calEof = FALSE
    /\ calFail = FALSE
    /\ line = EmptyLine
    /\ lineNo = 0
    /\ skipped_linear = FALSE
    /\ knots = <<>>
    /\ cal_spline = <<>>
    /\ calOut = <<>>
    /\ calPc = "linear"

\* MakeCalibration line 127: linear_params = LoadLinearCalParams(filename)
LoadLinear ==
    /\ calPc = "linear"
    /\ linear_params' = LoadLinearCalParams(calFile)
    /\ calPc' = "outer"
    /\ UNCHANGED <<calFile, calNewline, calPos, calEof, calFail, line, lineNo,
                   skipped_linear, knots, cal_spline, calOut>>
    /\ UNCHANGED <<abVars, gmVars, xbVars, caVars, avVars, soVars, htVars>>

\* LoadSplineCorrParams line 23: the test of the outer while, and line 25
OuterGetline ==
    /\ calPc = "outer"
    /\ LET st == Getline(calFile, calNewline, Stream)
       IN  /\ SetStream(st)
           /\ line' = st.line
           /\ lineNo' = st.no
           /\ IF st.ok
              THEN skipped_linear' = FALSE /\ calPc' = "inner"
              ELSE UNCHANGED skipped_linear /\ calPc' = "close"
    /\ UNCHANGED <<calFile, calNewline, linear_params, knots, cal_spline, calOut>>
    /\ UNCHANGED <<abVars, gmVars, xbVars, caVars, avVars, soVars, htVars>>

\* Lines 40-63: the test of the inner while and, when it reads a line, its body
InnerGetline ==
    /\ calPc = "inner"
    /\ LET st == Getline(calFile, calNewline, Stream)
           trimmed == Trim(st.line)
       IN  /\ SetStream(st)
           /\ lineNo' = st.no
           /\ IF ~st.ok
              THEN /\ line' = st.line
                   /\ calPc' = "post"
                   /\ UNCHANGED <<skipped_linear, knots>>
              ELSE /\ line' = trimmed
                   /\ calPc' = "inner"
                   /\ IF IsEmpty(trimmed) \/ StartsWithHash(trimmed)
                      THEN UNCHANGED <<skipped_linear, knots>>
                      ELSE IF ~skipped_linear
                      THEN skipped_linear' = TRUE /\ UNCHANGED knots
                      ELSE /\ UNCHANGED skipped_linear
                           /\ knots' = IF ParsesTwo(trimmed)
                                       THEN Append(knots, <<trimmed.x, trimmed.y, st.no>>)
                                       ELSE knots
    /\ UNCHANGED <<calFile, calNewline, linear_params, cal_spline, calOut>>
    /\ UNCHANGED <<abVars, gmVars, xbVars, caVars, avVars, soVars, htVars>>

\* Lines 64-73: the rest of the outer loop's body, on whatever line holds
PostInner ==
    /\ calPc = "post"
    /\ knots' = IF IsEmpty(line) \/ StartsWithHash(line) THEN knots
                ELSE IF ParsesTwo(line) THEN Append(knots, <<line.x, line.y, lineNo>>)
                ELSE knots
    /\ calPc' = "outer"
    /\ UNCHANGED <<calFile, calNewline, linear_params, calPos, calEof, calFail,
                   line, lineNo, skipped_linear, cal_spline, calOut>>
    /\ UNCHANGED <<abVars, gmVars, xbVars, caVars, avVars, soVars, htVars>>

\* Lines 76-85: no knot gives TSpline3(), else the spline through the knots
CloseAndBuild ==
    /\ calPc = "close"
    /\ cal_spline' = knots
    /\ calPc' = "made"
    /\ UNCHANGED <<calFile, calNewline, linear_params, calPos, calEof, calFail,
                   line, lineNo, skipped_linear, knots, calOut>>
    /\ UNCHANGED <<abVars, gmVars, xbVars, caVars, avVars, soVars, htVars>>

RawVals == {0, kMaxCalibrationEnergy - 1, kMaxCalibrationEnergy,
            kMaxCalibrationEnergy + 1}

\* What cal_spline.Eval may return (TSpline3 is ROOT's)
SplineCorrVals == {0 - MaxSplineCorr, MaxSplineCorr}

\* The lambda calibration_func (lines 134-140) on input, with spline_corr the
\* value cal_spline.Eval(lincal_E) returned
CalibrationFunc(offset, slope, input, spline_corr) ==
    LET lincal_E == slope * input + offset
        energy == IF input < kMaxCalibrationEnergy
                  THEN lincal_E + spline_corr
                  ELSE lincal_E
    IN  [input |-> input, lincal_E |-> lincal_E, spline_corr |-> spline_corr,
         energy |-> energy]

\* One call of the calibration function MakeCalibration returned
Calibrate ==
    /\ calPc = "made"
    /\ \E input \in RawVals, spline_corr \in SplineCorrVals :
          calOut' = CalibrationFunc(linear_params[1], linear_params[2], input,
                                    spline_corr)
    /\ UNCHANGED <<calFile, calNewline, linear_params, calPos, calEof, calFail,
                   line, lineNo, skipped_linear, knots, cal_spline, calPc>>
    /\ UNCHANGED <<abVars, gmVars, xbVars, caVars, avVars, soVars, htVars>>

NextCal ==
    LoadLinear \/ OuterGetline \/ InnerGetline \/ PostInner \/ CloseAndBuild
        \/ Calibrate

SpecCal == InitCal /\ [][NextCal]_vars

----------------------------------------------------------------------------
(* CACrosstalkCorrection: fitting the pairs and assembling the matrix *)

\* Bound: the fitted coefficients are 1 .. MaxAlpha (in units of 1e-10)
MaxAlpha == 2

AlphaVals == 1 .. MaxAlpha

\* xtalPairs (line 356): the crystal pair of each of the 6 histograms
xtalPairs == <<(<<0, 1>>), <<0, 2>>, <<0, 3>>, <<1, 2>>, <<1, 3>>, <<2, 3>>>>

\* TMatrixD(4, 4) after Zero()
ZeroMatrix == [i \in Xtals |-> [j \in Xtals |-> 0]]

\* FitCrosstalkCorrection (lines 327-349).  graph->Fit is ROOT's: converged
\* tells whether it converged, alphaXY and alphaYX are the parameters it left
\* in fitFunc.  The status Fit returns is not looked at: valid is set to true.
FitCrosstalkCorrection(converged, alphaXY, alphaYX) ==
    [valid |-> TRUE, alphaXY |-> alphaXY, alphaYX |-> alphaYX]

InitXtalkBuild ==
    /\ AddBackVectorIdle
    /\ HistToolsIdle
    /\ SorterIdle
    /\ AddBackIdle
    /\ GainMatchIdle
    /\ CalIdle
    /\ CAFileIdle
    /\ fits = <<>>
    /\ xtalkMatrix = ZeroMatrix
    /\ xbI = 0
    /\ xbPc = "build"

\* BuildCrosstalkMatrix, one turn of the loop (lines 358-369), and the return
\* after the last one (line 371)
BuildPair ==
    /\ xbPc = "build"
    /\ \E converged \in BOOLEAN, alphaXY \in AlphaVals, alphaYX \in AlphaVals :
        LET fitResult == FitCrosstalkCorrection(converged, alphaXY, alphaYX)
            xtalX == xtalPairs[xbI + 1][1]
            xtalY == xtalPairs[xbI + 1][2]
        IN  /\ fits' = Append(fits, [converged |-> converged, result |-> fitResult])
            /\ IF ~fitResult.valid
               THEN /\ xbPc' = "threw"
                    /\ UNCHANGED <<xtalkMatrix, xbI>>
               ELSE /\ xtalkMatrix' = [xtalkMatrix EXCEPT
                                         ![xtalX][xtalY] = fitResult.alphaXY,
                                         ![xtalY][xtalX] = fitResult.alphaYX]
                    /\ xbI' = xbI + 1
                    /\ xbPc' = IF xbI + 1 < Len(xtalPairs) THEN "build" ELSE "returned"
    /\ UNCHANGED <<abVars, gmVars, calVars, caVars, avVars, soVars, htVars>>

NextXtalkBuild == BuildPair

SpecXtalkBuild == InitXtalkBuild /\ [][NextXtalkBuild]_vars

----------------------------------------------------------------------------
(* CAUtilities::ReadCAFile, LoadCrosstalkMatrices, CAGainCorrection::MakeCorrections *)

\* Bound: the lines of a file
MaxCALines == 5

\* A double read from text: w + f * 1e-10, w the whole part
Num(w, f) == [w |-> w, f |-> f]

\* A whitespace-separated token of a data line: an integer literal ("2"), a
\* literal with a decimal point ("0.0000000012"), or text that is no number
IntTok(n) == [junk |-> FALSE, point |-> FALSE, w |-> n, f |-> 0]
DecTok(w, f) == [junk |-> FALSE, point |-> TRUE, w |-> w, f |-> f]
JunkTok == [junk |-> TRUE, point |-> FALSE, w |-> 0, f |-> 0]

\* A line: "" ("empty"), a '#' line without the word Channel ("section"), a
\* '#' line with it ("colheader"), or any other line ("data") with its tokens
CALine(kind, toks) == [kind |-> kind, toks |-> toks]

\* "c  a_c0  a_c1  a_c2  a_c3" as WriteCrosstalkMatrices writes row c of a
\* matrix whose diagonal entry is d * 1e-10
XtalkRow(c, d) ==
    CALine("data", <<IntTok(c)>> \o
        [j \in 1 .. 4 |-> DecTok(0, IF j - 1 = c THEN d ELSE 10 * (c + 1) + j - 1)])

\* "c  offset  gain" of a gain-shift file
GainRow(c) == CALine("data", <<IntTok(c), DecTok(0, 5 + c), DecTok(1, c)>>)

SectionLine == CALine("section", <<>>)

CommonLines == {CALine("empty", <<>>), SectionLine, CALine("colheader", <<>>)}

\* The lines of the crosstalk files: the four rows of a matrix, a row 0 with a
\* diagonal entry that is not 0, a row for channel 4, a row with text in the
\* place of a coefficient, and a row of three numbers
XtalkFileLines ==
    CommonLines
    \cup {XtalkRow(c, 0) : c \in 0 .. 4}
    \cup {XtalkRow(0, 7)}
    \cup {CALine("data", <<IntTok(2), DecTok(0, 30), JunkTok, DecTok(0, 32), DecTok(0, 33)>>)}
    \cup {GainRow(0)}

\* The lines of the gain-shift files: rows for channels 0 and 1, a row of two
\* numbers, a row whose channel is written "0.5", and a row of five numbers
GainFileLines ==
    CommonLines
    \cup {GainRow(0), GainRow(1)}
    \cup {CALine("data", <<IntTok(1), DecTok(0, 6)>>)}
    \cup {CALine("data", <<DecTok(0, 5), DecTok(1, 1)>>)}
    \cup {XtalkRow(0, 0)}

CAFiles(lines) == UNION {[1 .. n -> lines] : n \in 0 .. MaxCALines}

\* The inner while (lines 120-123): values until one does not parse
RECURSIVE ParseValues(_, _)
ParseValues(toks, k) ==
    IF k > Len(toks) \/ toks[k].junk THEN <<>>
    ELSE <<Num(toks[k].w, toks[k].f)>> \o ParseValues(toks, k + 1)

\* Lines 114-124: iss >> channel reads an int (of "0.5" it reads 0 and leaves
\* ".5" to the values), then the values; once a value fails the stream has
\* failed and the outer while ends too
ParseRow(toks) ==
    IF Len(toks) = 0 \/ toks[1].junk THEN <<>>
    ELSE <<Num(toks[1].w, 0)>>
            \o (IF toks[1].point THEN <<Num(0, toks[1].f)>> ELSE <<>>)
            \o ParseValues(toks, 2)

\* What calling data.back() on an empty vector can end in: the process is
\* killed, or the row goes to memory that is no part of data
UBOutcomes == {"crash", "lost"}

\* ReadCAFile, the loop over the lines from line n on (lines 88-125).
\* acc = [data, ub, crashed]; outcome is what the undefined call ends in.
RECURSIVE ReadLines(_, _, _, _)
ReadLines(file, n, acc, outcome) ==
    IF n > Len(file) \/ acc.crashed THEN acc
    ELSE LET l == file[n] IN
        IF l.kind = "empty" THEN ReadLines(file, n + 1, acc, outcome)
        ELSE IF l.kind = "section"
        THEN ReadLines(file, n + 1, [acc EXCEPT !.data = Append(acc.data, <<>>)], outcome)
        ELSE IF l.kind = "colheader" THEN ReadLines(file, n + 1, acc, outcome)
        ELSE IF Len(acc.data) = 0
        THEN ReadLines(file, n + 1,
                [acc EXCEPT !.ub = TRUE, !.crashed = (outcome = "crash")], outcome)
        ELSE ReadLines(file, n + 1,
                [acc EXCEPT !.data[Len(acc.data)] = Append(@, ParseRow(l.toks))],
                outcome)

ReadCAFile(file, outcome) ==
    ReadLines(file, 1, [data |-> <<>>, ub |-> FALSE, crashed |-> FALSE], outcome)

\* LoadCrosstalkMatrices, the rows of one section from row r on (lines 410-425)
\* st = [M, threw]
RECURSIVE LoadRows(_, _, _)
LoadRows(rows, r, st) ==
    IF r > Len(rows) \/ st.threw THEN st
    ELSE LET row == rows[r] IN
        IF Len(row) # 5 THEN [st EXCEPT !.threw = TRUE]
        ELSE LET channel == row[1].w IN
            IF channel >= 4 THEN [st EXCEPT !.threw = TRUE]
            ELSE LoadRows(rows, r + 1,
                    [st EXCEPT !.M[channel] = [j \in Xtals |-> row[j + 2]]])

\* The loop over the sections from section k on (lines 408-428); the matrix
\* xtalkMatrix is declared before the loop and is not cleared between sections
RECURSIVE LoadSections(_, _, _)
LoadSections(data, k, st) ==
    IF k > Len(data) \/ st.threw THEN st
    ELSE LET rs == LoadRows(data[k], 1, [M |-> st.M, threw |-> FALSE])
         IN  IF rs.threw THEN [st EXCEPT !.threw = TRUE]
             ELSE LoadSections(data, k + 1,
                    [M |-> rs.M, threw |-> FALSE,
                     matrices |-> Append(st.matrices, rs.M)])

ZeroNumMatrix == [i \in Xtals |-> [j \in Xtals |-> Num(0, 0)]]

LoadCrosstalkMatrices(data) ==
    LoadSections(data, 1, [M |-> ZeroNumMatrix, threw |-> FALSE, matrices |-> <<>>])

\* CAGainCorrection::MakeCorrections, the rows of one module (lines 41-57):
\* st = [funcs, threw]; a closure is kept as the (offset, gain) it captured
RECURSIVE GainRows(_, _, _)
GainRows(rows, r, st) ==
    IF r > Len(rows) \/ st.threw THEN st
    ELSE LET channelData == rows[r] IN
        IF Len(channelData) # 3 THEN [st EXCEPT !.threw = TRUE]
        ELSE GainRows(rows, r + 1,
                [st EXCEPT !.funcs = Append(@, [offset |-> channelData[2],
                                                gain |-> channelData[3]])])

\* The loop over the modules (lines 38-59)
RECURSIVE GainModules(_, _, _)
GainModules(data, k, st) ==
    IF k > Len(data) \/ st.threw THEN st
    ELSE LET ms == GainRows(data[k], 1, [funcs |-> <<>>, threw |-> FALSE])
         IN  IF ms.threw THEN [st EXCEPT !.threw = TRUE]
             ELSE GainModules(data, k + 1,
                    [st EXCEPT !.funcs = Append(@, ms.funcs)])

GainMakeCorrections(data) == GainModules(data, 1, [funcs |-> <<>>, threw |-> FALSE])

InitCAFile ==
    /\ AddBackVectorIdle
    /\ HistToolsIdle
    /\ SorterIdle
    /\ AddBackIdle
    /\ GainMatchIdle
    /\ CalIdle
    /\ XtalkBuildIdle
    /\ caConsumer \in {"xtalk", "gain"}
    /\ caFile \in CAFiles(IF caConsumer = "xtalk" THEN XtalkFileLines ELSE GainFileLines)
    /\ raw_data = <<>>
    /\ caUB = FALSE
    /\ xtalkMatrices = <<>>
    /\ gainshiftFunctions = <<>>
    /\ caPc = "read"
    /\ xtalk_matrices = <<>>
    /\ corrApplied = <<>>

\* The call CAUtilities::ReadCAFile(fileName) of either caller
ReadFile ==
    /\ caPc = "read"
    /\ \E outcome \in UBOutcomes :
        LET r == ReadCAFile(caFile, outcome)
        IN  /\ raw_data' = r.data
            /\ caUB' = r.ub
            /\ caPc' = IF r.crashed THEN "crashed" ELSE "load"
    /\ UNCHANGED <<caFile, caConsumer, xtalkMatrices, gainshiftFunctions,
                   xtalk_matrices, corrApplied>>
    /\ UNCHANGED <<abVars, gmVars, calVars, xbVars, avVars, soVars, htVars>>

\* LoadCrosstalkMatrices after ReadCAFile has returned: the matrices, or a throw
LoadMatrices ==
    /\ caPc = "load"
    /\ caConsumer = "xtalk"
    /\ LET r == LoadCrosstalkMatrices(raw_data)
       IN  IF r.threw
           THEN caPc' = "threw" /\ UNCHANGED xtalkMatrices
           ELSE caPc' = "returned" /\ xtalkMatrices' = r.matrices
    /\ UNCHANGED <<caFile, caConsumer, raw_data, caUB, gainshiftFunctions,
                   xtalk_matrices, corrApplied>>
    /\ UNCHANGED <<abVars, gmVars, calVars, xbVars, avVars, soVars, htVars>>

\* CAGainCorrection::MakeCorrections after ReadCAFile has returned
MakeGainCorrections ==
    /\ caPc = "load"
    /\ caConsumer = "gain"
    /\ LET r == GainMakeCorrections(raw_data)
       IN  IF r.threw
           THEN caPc' = "threw" /\ UNCHANGED gainshiftFunctions
           ELSE caPc' = "returned" /\ gainshiftFunctions' = r.funcs
    /\ UNCHANGED <<caFile, caConsumer, raw_data, caUB, xtalkMatrices,
                   xtalk_matrices, corrApplied>>
    /\ UNCHANGED <<abVars, gmVars, calVars, xbVars, avVars, soVars, htVars>>

NextCAFile == ReadFile \/ LoadMatrices \/ MakeGainCorrections

SpecCAFile == InitCAFile /\ [][NextCAFile]_vars

----------------------------------------------------------------------------
(* WriteCrosstalkMatrices, and reading the file written back *)

\* Bound: the matrices of the list written
MaxMatrices == 2

\* A double held in a matrix: (-1)^neg * (w + f * 1e-10 + g * 1e-11), with
\* w the whole part, f the first ten decimals and g the eleventh
Dbl(neg, w, f, g) == [neg |-> neg, w |-> w, f |-> f, g |-> g]

\* The (sign, f, g) a matrix entry is made of: 0, 3e-10, -7e-10, and two
\* values that ten decimals do not hold
EntryParts ==
    { <<FALSE, 0, 0>>, <<FALSE, 3, 0>>, <<TRUE, 7, 0>>, <<FALSE, 3, 4>>,
      <<TRUE, 7, 6>> }

\* The matrix whose entry (i, j) has the whole part i + j on even i + j and 0
\* elsewhere, and the decimals of u on even i + j, of v on odd
MatrixOf(u, v) ==
    [i \in Xtals |-> [j \in Xtals |->
        IF (i + j) % 2 = 0
        THEN Dbl(u[1], IF u[2] = 0 /\ u[3] = 0 THEN 0 ELSE i + j, u[2], u[3])
        ELSE Dbl(v[1], 0, v[2], v[3])]]

MatrixLists ==
    UNION {[1 .. n -> {MatrixOf(u, v) : u \in EntryParts, v \in EntryParts}]
            : n \in 0 .. MaxMatrices}

\* "%14.9f": one decimal less than the format of line 162
FormatFNine(d) ==
    LET sgn == IF d.neg THEN 0 - 1 ELSE 1
    IN  DecTok(sgn * d.w, sgn * ((d.f - (d.f % 10)) + (IF (d.f % 10) >= 5 THEN 10 ELSE 0)))

\* "%14.10f" (line 162): the text of d rounded to ten decimals, a '-' in front
\* of a negative value
FormatF(d) ==
    LET sgn == IF d.neg THEN 0 - 1 ELSE 1
    IN  DecTok(sgn * d.w, sgn * (d.f + (IF d.g >= 5 THEN 1 ELSE 0)))

\* The row line 162 prints: "%zu\t%14.10f\t%14.10f\t%14.10f\t%14.10f\n"
WriteRow(i, xtalk_matrix) ==
    CALine("data", <<IntTok(i)>> \o [j \in 1 .. 4 |-> FormatF(xtalk_matrix[i][j - 1])])

\* WriteCrosstalkMatrices (lines 147-166): the column header, then for each
\* matrix the line "# Detector i" and its four rows
RECURSIVE WriteFrom(_, _)
WriteFrom(ms, i) ==
    IF i > Len(ms) THEN <<>>
    ELSE <<SectionLine>> \o [r \in 1 .. 4 |-> WriteRow(r - 1, ms[i])]
            \o WriteFrom(ms, i + 1)

WriteCrosstalkMatrices(ms) == <<CALine("colheader", <<>>)>> \o WriteFrom(ms, 1)

InitWriteLoad ==
    /\ AddBackVectorIdle
    /\ HistToolsIdle
    /\ SorterIdle
    /\ AddBackIdle
    /\ GainMatchIdle
    /\ CalIdle
    /\ XtalkBuildIdle
    /\ caConsumer = "xtalk"
    /\ xtalk_matrices \in MatrixLists
    /\ caFile = <<>>
    /\ raw_data = <<>>
    /\ caUB = FALSE
    /\ xtalkMatrices = <<>>
    /\ gainshiftFunctions = <<>>
    /\ corrApplied = <<>>
    /\ caPc = "write"

\* The call WriteCrosstalkMatrices(filename, xtalk_matrices)
WriteFile ==
    /\ caPc = "write"
    /\ caFile' = WriteCrosstalkMatrices(xtalk_matrices)
    /\ caPc' = "read"
    /\ UNCHANGED <<caConsumer, raw_data, caUB, xtalkMatrices, gainshiftFunctions,
                   xtalk_matrices, corrApplied>>
    /\ UNCHANGED <<abVars, gmVars, calVars, xbVars, avVars, soVars, htVars>>

NextWriteLoad == WriteFile \/ ReadFile \/ LoadMatrices

SpecWriteLoad == InitWriteLoad /\ [][NextWriteLoad]_vars

----------------------------------------------------------------------------
(* CACrosstalkCorrection::MakeCorrections: the closures and their calls *)

\* Bound: the lines of the hand-written files the closures are built from
MaxCorrLines == 4

\* The double NaN among the numbers w + f * 1e-10
NaNNum == Num(NaN, 0)

IsNaNNum(a) == a.w = NaN

\* a + b, a - b and a * b of doubles; an operand NaN gives NaN.  The product
\* leaves out a.f * b.f * 1e-20: one factor is always a whole number here.
AddNum(a, b) == IF IsNaNNum(a) \/ IsNaNNum(b) THEN NaNNum ELSE Num(a.w + b.w, a.f + b.f)
SubNum(a, b) == IF IsNaNNum(a) \/ IsNaNNum(b) THEN NaNNum ELSE Num(a.w - b.w, a.f - b.f)
MulNum(a, b) ==
    IF IsNaNNum(a) \/ IsNaNNum(b) THEN NaNNum
    ELSE Num(a.w * b.w, a.w * b.f + a.f * b.w)

\* The measured energies a closure is called with: NaN, 0 and 500 keV
MeasVals == {NaNNum, Num(0, 0), Num(500, 0)}

\* The files: the hand-written ones of section, column header and row lines,
\* and the ones WriteCrosstalkMatrices writes
CorrFileLines ==
    {SectionLine, CALine("colheader", <<>>), XtalkRow(0, 0), XtalkRow(0, 7),
     XtalkRow(1, 0)}

CorrFiles ==
    UNION {[1 .. n -> CorrFileLines] : n \in 0 .. MaxCorrLines}
    \cup {WriteCrosstalkMatrices(ms) :
            ms \in UNION {[1 .. n -> {MatrixOf(u, u) : u \in EntryParts}]
                            : n \in 0 .. MaxMatrices}}

\* The inner loop (lines 446-451) from column j on, correction so far acc
RECURSIVE CorrectionSum(_, _, _, _, _)
CorrectionSum(M, measE, i, j, acc) ==
    IF j >= 4 THEN acc
    ELSE CorrectionSum(M, measE, i, j + 1, AddNum(acc, MulNum(M[i][j], measE[j])))

\* The inner loop without the term j = i
RECURSIVE CorrectionSumOffDiagonal(_, _, _, _, _)
CorrectionSumOffDiagonal(M, measE, i, j, acc) ==
    IF j >= 4 THEN acc
    ELSE CorrectionSumOffDiagonal(M, measE, i, j + 1,
            IF j = i THEN acc ELSE AddNum(acc, MulNum(M[i][j], measE[j])))

\* The closure that leaves the term j = i out
CorrectionClosureOffDiagonal(M, measE) ==
    [i \in Xtals |-> SubNum(measE[i], CorrectionSumOffDiagonal(M, measE, i, 0, Num(0, 0)))]

\* The closure pushed at lines 441-454, capturing the matrix M by value
CorrectionClosure(M, measE) ==
    [i \in Xtals |-> SubNum(measE[i], CorrectionSum(M, measE, i, 0, Num(0, 0)))]

\* MakeCorrections (lines 433-457): one closure per matrix LoadCrosstalkMatrices
\* returned, in its order; a closure is kept as the matrix it captured
MakeCorrections(matrices) == [d \in 1 .. Len(matrices) |-> matrices[d]]

InitCorrections ==
    /\ AddBackVectorIdle
    /\ HistToolsIdle
    /\ SorterIdle
    /\ AddBackIdle
    /\ GainMatchIdle
    /\ CalIdle
    /\ XtalkBuildIdle
    /\ caConsumer = "xtalk"
    /\ caFile \in CorrFiles
    /\ raw_data = <<>>
    /\ caUB = FALSE
    /\ xtalkMatrices = <<>>
    /\ gainshiftFunctions = <<>>
    /\ xtalk_matrices = <<>>
    /\ corrApplied = <<>>
    /\ caPc = "read"

\* A call corrections[d](measE) of a closure MakeCorrections returned.  The
\* closures are pure: the first call shows all a later one can.
ApplyCorrection ==
    /\ caPc = "returned"
    /\ caConsumer = "xtalk"
    /\ corrApplied = <<>>
    /\ \E d \in 1 .. Len(xtalkMatrices), measE \in [Xtals -> MeasVals] :
        corrApplied' = [d |-> d, measE |-> measE,
                        corrE |-> CorrectionClosure(MakeCorrections(xtalkMatrices)[d], measE)]
    /\ UNCHANGED <<caFile, caConsumer, raw_data, caUB, xtalkMatrices,
                   gainshiftFunctions, caPc, xtalk_matrices>>
    /\ UNCHANGED <<abVars, gmVars, calVars, xbVars, avVars, soVars, htVars>>

NextCorrections == ReadFile \/ LoadMatrices \/ ApplyCorrection

SpecCorrections == InitCorrections /\ [][NextCorrections]_vars

----------------------------------------------------------------------------
(* AddBack::GetAddBackEnergy, the vector variant the sorter calls *)

\* The first loop (lines 27-37) from crystal c on; st = <<highest_energy,
\* highest_energy_index>>.  Vectors are indexed from 1 here, from 0 in the
\* source: the index 0 stands for the source's -1.
RECURSIVE HighestFrom(_, _, _)
HighestFrom(energies, crystal, st) ==
    IF crystal > Len(energies) THEN st
    ELSE HighestFrom(energies, crystal + 1,
            IF Gt(energies[crystal], kAddBackThreshold) /\ Gt(energies[crystal], st[1])
            THEN <<energies[crystal], crystal>>
            ELSE st)

\* The second loop (lines 40-51) from crystal c on; st = <<final_energy, mult>>
RECURSIVE AddBackFrom(_, _, _, _, _)
AddBackFrom(energies, times, index, crystal, st) ==
    IF crystal > Len(energies) THEN st
    ELSE AddBackFrom(energies, times, index, crystal + 1,
            IF /\ Lt(Fabs(Sub(times[index], times[crystal])), kAddBackWindow)
               /\ Gt(energies[crystal], kAddBackThreshold)
            THEN <<Add(st[1], energies[crystal]), st[2] + 1>>
            ELSE st)

\* double AddBack::GetAddBackEnergy(std::vector<double>, std::vector<double>):
\* the value returned, with the primary's index and the counter mult
AddBackVector(energies, times) ==
    IF Len(energies) # Len(times)
    THEN [final_energy |-> 0, highest_energy_index |-> 0, mult |-> 0]
    ELSE LET hi == HighestFrom(energies, 1, <<0, 0>>)
             st == IF hi[2] > 0
                   THEN AddBackFrom(energies, times, hi[2], 1, <<0, 0>>)
                   ELSE <<0, 0>>
         IN  [final_energy |-> st[1], highest_energy_index |-> hi[2], mult |-> st[2]]

\* The vectors of 1 to 4 crystals
CrystalVectors(vals) == UNION {[1 .. n -> vals] : n \in 1 .. 4}

InitAddBackVector ==
    /\ AddBackIdle
    /\ GainMatchIdle
    /\ CalIdle
    /\ XtalkBuildIdle
    /\ CAFileIdle
    /\ SorterIdle
    /\ HistToolsIdle
    /\ crystal_energies \in CrystalVectors(EnergyVals)
    /\ crystal_times \in [1 .. Len(crystal_energies) -> TimeVals]
    /\ highest_energy_index = 0
    /\ final_energy = 0
    /\ mult = 0
    /\ avPc = "call"

\* One call of the vector variant
AddBackVectorCall ==
    /\ avPc = "call"
    /\ LET r == AddBackVector(crystal_energies, crystal_times)
       IN  /\ final_energy' = r.final_energy
           /\ highest_energy_index' = r.highest_energy_index
           /\ mult' = r.mult
    /\ avPc' = "done"
    /\ UNCHANGED <<crystal_energies, crystal_times>>
    /\ UNCHANGED <<abVars, gmVars, calVars, xbVars, caVars, soVars, htVars>>

NextAddBackVector == AddBackVectorCall

SpecAddBackVector == InitAddBackVector /\ [][NextAddBackVector]_vars

----------------------------------------------------------------------------
(* The sorter: one turn of the detector loop of fillHistograms *)

\* kNsPerBin = 0.098 = kNsPerBinNum / kNsPerBinDen
kNsPerBinNum == 98
kNsPerBinDen == 1000

\* The amplitudes and channel times an event holds for a channel.  The times are
\* whole multiples of 500 bins, which are whole nanoseconds (49 ns each).
AmpVals == {NaN, 0, 100, 250}
ChtVals == {NaN, 500, 2000}

\* cc_E_cal[ch]: the calibration closure of channel ch, here the one of a file
\* with offset 0, slope 2 and no knots (MakeCalibration)
cc_E_cal(ch, amp) == CalibrationFunc(0, 2, amp, 0).energy

\* cc_cht_val[ch] * CAHistograms::kNsPerBin
ChtNs(cht_val) == (cht_val * kNsPerBinNum) \div kNsPerBinDen

\* hist->Fill(x, y) of a TH2D: the bin of (x, y) gets the weight 1
Fill2D(hist, x, y) == [hist |-> hist, x |-> x, y |-> y, w |-> 1]

\* hist->Fill(x, w) of a TH1D: the bin of x gets the weight w
Fill1D(hist, x, w) == [hist |-> hist, x |-> x, y |-> 0, w |-> w]

\* A test that looks at the amplitude alone
AmplitudeNotNaN(amp, cht_val) == ~IsNaN(amp)

\* The test of lines 376-377: neither the amplitude nor the channel time of
\* the channel is NaN
NeitherNaN(amp, cht_val) == ~IsNaN(amp) /\ ~IsNaN(cht_val)

\* The crystal loop (lines 357-401) from crystal xtal on;
\* st = [fills, E, T] with E, T the vectors cc_xtal_E, cc_xtal_T
RECURSIVE CrystalLoop(_, _, _, _, _)
CrystalLoop(d, amp, chtv, xtal, st) ==
    IF xtal >= 4 THEN st
    ELSE LET ch == d * 4 + xtal
             raw == <<Fill2D("cc_amp", amp[xtal], ch), Fill2D("cc_cht", chtv[xtal], ch),
                      Fill2D("cc_plu", 0, ch)>>
         IN  IF NeitherNaN(amp[xtal], chtv[xtal])
             THEN LET energy == cc_E_cal(ch, amp[xtal])
                      cht == ChtNs(chtv[xtal])
                  IN  CrystalLoop(d, amp, chtv, xtal + 1,
                        [fills |-> st.fills \o raw
                                    \o <<Fill2D("cc_xtE", energy, ch),
                                         Fill2D("cc_cht", cht, ch),
                                         Fill2D("cc_sum", energy, d)>>,
                         E |-> Append(st.E, energy),
                         T |-> Append(st.T, cht)])
             ELSE CrystalLoop(d, amp, chtv, xtal + 1,
                        [st EXCEPT !.fills = st.fills \o raw])

\* The add-back fills (lines 405-409): cc_abE is a TH2D, cc_abM a TH1D
AddBackFills(d, E, T) ==
    IF E # <<>>
    THEN <<Fill2D("cc_abE", AddBackVector(E, T).final_energy, d),
           Fill1D("cc_abM", Len(E), d)>>
    ELSE <<>>

InitSorter ==
    /\ AddBackIdle
    /\ GainMatchIdle
    /\ CalIdle
    /\ XtalkBuildIdle
    /\ CAFileIdle
    /\ AddBackVectorIdle
    /\ HistToolsIdle
    /\ EventLoopIdle
    /\ det \in 0 .. 3
    /\ cc_amp_val \in [Xtals -> AmpVals]
    /\ cc_cht_val \in [Xtals -> ChtVals]
    /\ cc_xtal_E = <<>>
    /\ cc_xtal_T = <<>>
    /\ fills = <<>>
    /\ soPc = "event"

\* The body of the detector loop for detector det (lines 352-418)
FillDetector ==
    /\ soPc = "event"
    /\ LET st == CrystalLoop(det, cc_amp_val, cc_cht_val, 0,
                             [fills |-> <<>>, E |-> <<>>, T |-> <<>>])
       IN  /\ cc_xtal_E' = st.E
           /\ cc_xtal_T' = st.T
           /\ fills' = st.fills \o AddBackFills(det, st.E, st.T)
    /\ soPc' = "filled"
    /\ UNCHANGED <<det, cc_amp_val, cc_cht_val, loopVars>>
    /\ UNCHANGED <<abVars, gmVars, calVars, xbVars, caVars, avVars, htVars>>

NextSorter == FillDetector

SpecSorter == InitSorter /\ [][NextSorter]_vars

----------------------------------------------------------------------------
(* The sorter: the event loop on worker threads, the join and the Write *)

\* Bounds: the threads of the pool, the entries of the tree, the bins of a
\* histogram
NumWorkers == 2
MaxEntries == 3
NumBins == 2

\* The threads that run fillHistograms: ROOT::EnableImplicitMT(kMaxThreads)
\* (line 176) sizes the pool, and the thread that calls Process, thread 0,
\* takes chunks too while it waits
Workers == 0 .. NumWorkers - 1
Bins == 0 .. NumBins - 1

\* The slots of the TThreadedObject: one per thread, slot 0 made for the main
\* thread by the constructor (TCAHistogram.hpp:22)
Slots == Workers

\* n_entries = tree->GetEntries() (line 229)
n_entries == Len(entries)

\* The first entries of the chunks TTreeProcessorMT cuts the tree into
ChunkStarts == IF n_entries = 0 THEN {} ELSE {1} \cup {c + 1 : c \in cuts}

\* The last entry of the chunk that starts at entry a
ChunkEnd(a) ==
    LET ends == {c \in cuts \cup {n_entries} : c >= a}
    IN  CHOOSE c \in ends : \A e \in ends : c <= e

EmptyHist == [b \in Bins |-> 0]

\* hist->Fill of the event of an entry: its bin gets one count more
Fill(hist, bin) == [hist EXCEPT ![bin] = @ + 1]

\* The sum over the slots from s on of the counts of bin b
RECURSIVE SumSlots(_, _, _)
SumSlots(sl, s, b) ==
    IF s \notin Slots THEN 0 ELSE sl[s][b] + SumSlots(sl, s + 1, b)

\* A merge that leaves the last slot out
MergeAllButLast(sl) ==
    [b \in Bins |-> SumSlots(sl, 0, b) - sl[NumWorkers - 1][b]]

\* ROOT::TThreadedObject<T>::Merge() (TCAHistogram.hpp:35): the objects of all
\* slots are added up
MergeSlots(sl) == [b \in Bins |-> SumSlots(sl, 0, b)]

\* Process returns as soon as some chunk has been handed out
ProcessDoneEarly == claimed # {}

\* EventProcessor.Process(fillHistograms) (line 435) returns when every chunk
\* has been handed to a worker and every worker has left fillHistograms
ProcessDone == claimed = ChunkStarts /\ \A w \in Workers : pos[w] = 0

InitEventLoop ==
    /\ AddBackIdle
    /\ GainMatchIdle
    /\ CalIdle
    /\ XtalkBuildIdle
    /\ CAFileIdle
    /\ AddBackVectorIdle
    /\ HistToolsIdle
    /\ DetectorLoopIdle
    /\ entries \in UNION {[1 .. n -> Bins] : n \in 1 .. MaxEntries}
    /\ cuts \in SUBSET (1 .. Len(entries) - 1)
    /\ claimed = {}
    /\ pos = [w \in Workers |-> 0]
    /\ lim = [w \in Workers |-> 0]
    /\ handle = [w \in Workers |-> 0 - 1]
    /\ slots = [s \in Slots |-> EmptyHist]
    /\ isMerged = FALSE
    /\ processedEntries = 0
    /\ lastShown = 0 - 1
    /\ progressPc = "poll"
    /\ mainPc = "process"
    /\ outfile = <<>>
    /\ cycle = 0

\* An increment from a stale read of the counter's first value: the updates of
\* the other threads are lost
IncrementStale(counter) == 1

\* processedEntries++ on the std::atomic<uint64_t> (lines 237, 428): one
\* indivisible read-modify-write
Increment(counter) == counter + 1

\* A handle to one object shared by all threads
GetSharedPtr(w) == 0

\* GetThreadLocalPtr() called by thread w (TCAHistogram.hpp:34):
\* fHistogram.Get() gives the object of the slot that belongs to the calling
\* thread; the slots are numbered here as their threads are
GetThreadLocalPtr(w) == w

\* A worker thread is given a chunk and enters fillHistograms (lines 250-326):
\* GetThreadLocalPtr (line 293, TCAHistogram.hpp:34) gives it the slot of its
\* own thread
StartChunk(w) ==
    /\ mainPc = "process"
    /\ pos[w] = 0
    /\ \E a \in ChunkStarts \ claimed :
        /\ claimed' = claimed \cup {a}
        /\ pos' = [pos EXCEPT ![w] = a]
        /\ lim' = [lim EXCEPT ![w] = ChunkEnd(a)]
    /\ handle' = [handle EXCEPT ![w] = GetThreadLocalPtr(w)]
    /\ UNCHANGED <<entries, cuts, slots, isMerged, processedEntries, lastShown,
                   progressPc, mainPc, outfile, cycle>>
    /\ UNCHANGED <<det, cc_amp_val, cc_cht_val, cc_xtal_E, cc_xtal_T, fills, soPc>>
    /\ UNCHANGED <<abVars, gmVars, calVars, xbVars, caVars, avVars, htVars>>

\* One turn of while (event_reader.Next()) (lines 327-429): the fills through
\* the worker's handle, then processedEntries++; after the last entry of the
\* chunk fillHistograms returns
FillEntry(w) ==
    /\ pos[w] # 0
    /\ slots' = [slots EXCEPT ![handle[w]] = Fill(@, entries[pos[w]])]
    /\ processedEntries' = Increment(processedEntries)
    /\ pos' = [pos EXCEPT ![w] = IF pos[w] = lim[w] THEN 0 ELSE pos[w] + 1]
    /\ UNCHANGED <<entries, cuts, claimed, lim, handle, isMerged, lastShown,
                   progressPc, mainPc, outfile, cycle>>
    /\ UNCHANGED <<det, cc_amp_val, cc_cht_val, cc_xtal_E, cc_xtal_T, fills, soPc>>
    /\ UNCHANGED <<abVars, gmVars, calVars, xbVars, caVars, avVars, htVars>>

\* EventProcessor.Process returns (line 435)
ProcessReturns ==
    /\ mainPc = "process"
    /\ ProcessDone
    /\ mainPc' = "join"
    /\ UNCHANGED <<entries, cuts, claimed, pos, lim, handle, slots, isMerged,
                   processedEntries, lastShown, progressPc, outfile, cycle>>
    /\ UNCHANGED <<det, cc_amp_val, cc_cht_val, cc_xtal_E, cc_xtal_T, fills, soPc>>
    /\ UNCHANGED <<abVars, gmVars, calVars, xbVars, caVars, avVars, htVars>>

\* DisplayProgressBar, one turn of its loop (CAUtilities.cpp:50-69) that
\* prints a count it has not printed before
ProgressPoll ==
    /\ progressPc = "poll"
    /\ processedEntries < n_entries
    /\ lastShown # processedEntries
    /\ lastShown' = processedEntries
    /\ UNCHANGED <<entries, cuts, claimed, pos, lim, handle, slots, isMerged,
                   processedEntries, progressPc, mainPc, outfile, cycle>>
    /\ UNCHANGED <<det, cc_amp_val, cc_cht_val, cc_xtal_E, cc_xtal_T, fills, soPc>>
    /\ UNCHANGED <<abVars, gmVars, calVars, xbVars, caVars, avVars, htVars>>

\* DisplayProgressBar leaves its loop and returns (CAUtilities.cpp:50, 70-74)
ProgressReturn ==
    /\ progressPc = "poll"
    /\ ~(processedEntries < n_entries)
    /\ progressPc' = "done"
    /\ UNCHANGED <<entries, cuts, claimed, pos, lim, handle, slots, isMerged,
                   processedEntries, lastShown, mainPc, outfile, cycle>>
    /\ UNCHANGED <<det, cc_amp_val, cc_cht_val, cc_xtal_E, cc_xtal_T, fills, soPc>>
    /\ UNCHANGED <<abVars, gmVars, calVars, xbVars, caVars, avVars, htVars>>

\* progressBarThread.join() returns (line 438)
JoinProgress ==
    /\ mainPc = "join"
    /\ progressPc = "done"
    /\ mainPc' = "write"
    /\ UNCHANGED <<entries, cuts, claimed, pos, lim, handle, slots, isMerged,
                   processedEntries, lastShown, progressPc, outfile, cycle>>
    /\ UNCHANGED <<det, cc_amp_val, cc_cht_val, cc_xtal_E, cc_xtal_T, fills, soPc>>
    /\ UNCHANGED <<abVars, gmVars, calVars, xbVars, caVars, avVars, htVars>>

\* A Merge that adds the slots up at every call
MergeUnguarded(sl, merged) == MergeSlots(sl)

\* fHistogram.Merge() (TCAHistogram.hpp:35): the first call adds the slots up
\* into the object of slot 0; a later call returns that object as it is
Merge(sl, merged) == IF merged THEN sl[0] ELSE MergeSlots(sl)

\* Write() of the histogram (lines 459-467; TCAHistogram.hpp:36):
\* this->Merge()->Write(), which stores one more cycle of the object
WriteHist ==
    /\ mainPc = "write"
    /\ LET m == Merge(slots, isMerged)
       IN  /\ slots' = [slots EXCEPT ![0] = m]
           /\ outfile' = m
    /\ isMerged' = TRUE
    /\ cycle' = cycle + 1
    /\ mainPc' = "done"
    /\ UNCHANGED <<entries, cuts, claimed, pos, lim, handle, processedEntries,
                   lastShown, progressPc>>
    /\ UNCHANGED <<det, cc_amp_val, cc_cht_val, cc_xtal_E, cc_xtal_T, fills, soPc>>
    /\ UNCHANGED <<abVars, gmVars, calVars, xbVars, caVars, avVars, htVars>>

NextEventLoop ==
    \/ \E w \in Workers : StartChunk(w)
    \/ \E w \in Workers : FillEntry(w)
    \/ ProcessReturns
    \/ ProgressPoll
    \/ ProgressReturn
    \/ JoinProgress
    \/ WriteHist

SpecEventLoop == InitEventLoop /\ [][NextEventLoop]_vars

\* The threads of the pool, the progress thread and the main thread are all
\* scheduled again and again: a step that stays possible is taken
FairEventLoop ==
    /\ \A w \in Workers : WF_vars(StartChunk(w)) /\ WF_vars(FillEntry(w))
    /\ WF_vars(ProcessReturns)
    /\ WF_vars(ProgressReturn)
    /\ WF_vars(JoinProgress)
    /\ WF_vars(WriteHist)

\* The event loop over trees whose events all fall into the first bin: the
\* counter and the progress thread do not depend on what is filled
InitProgress ==
    /\ InitEventLoop
    /\ \A i \in DOMAIN entries : entries[i] = 0

SpecEventLoopFair == InitProgress /\ [][NextEventLoop]_vars /\ FairEventLoop

----------------------------------------------------------------------------
(* TCAHistogram / Histogram: Merge() and Write() called again and again *)

\* Bound: the Write calls on one histogram
MaxWrites == 3

\* The counts of the slot of thread s when thread owner[i] has filled entry i
SlotOf(ents, owner, s) ==
    [b \in Bins |->
        Cardinality({i \in 1 .. Len(ents) : owner[i] = s /\ ents[i] = b})]

\* The greatest entry thread w has filled (0: none)
LastOwned(owner, w) ==
    LET own == {i \in DOMAIN owner : owner[i] = w}
    IN  IF own = {} THEN 0 ELSE CHOOSE i \in own : \A j \in own : j <= i

\* The state of the sorter after progressBarThread.join() (line 438), every
\* entry a chunk of its own: the entries have been filled by any of the threads
InitHistogram ==
    /\ AddBackIdle
    /\ GainMatchIdle
    /\ CalIdle
    /\ XtalkBuildIdle
    /\ CAFileIdle
    /\ AddBackVectorIdle
    /\ HistToolsIdle
    /\ DetectorLoopIdle
    /\ entries \in UNION {[1 .. n -> Bins] : n \in 1 .. MaxEntries}
    /\ cuts = 1 .. Len(entries) - 1
    /\ claimed = 1 .. Len(entries)
    /\ pos = [w \in Workers |-> 0]
    /\ \E owner \in [1 .. Len(entries) -> Workers] :
        /\ slots = [s \in Slots |-> SlotOf(entries, owner, s)]
        /\ lim = [w \in Workers |-> LastOwned(owner, w)]
        /\ handle = [w \in Workers |->
                        IF LastOwned(owner, w) = 0 THEN 0 - 1 ELSE w]
    /\ isMerged = FALSE
    /\ processedEntries = Len(entries)
    /\ lastShown = 0 - 1
    /\ progressPc = "done"
    /\ mainPc = "calls"
    /\ outfile = <<>>
    /\ cycle = 0

\* A call of Merge() (TCAHistogram.hpp:35, Histograms.hpp:21)
MergeCall ==
    /\ mainPc = "calls"
    /\ slots' = [slots EXCEPT ![0] = Merge(slots, isMerged)]
    /\ isMerged' = TRUE
    /\ UNCHANGED <<entries, cuts, claimed, pos, lim, handle, processedEntries,
                   lastShown, progressPc, mainPc, outfile, cycle>>
    /\ UNCHANGED <<det, cc_amp_val, cc_cht_val, cc_xtal_E, cc_xtal_T, fills, soPc>>
    /\ UNCHANGED <<abVars, gmVars, calVars, xbVars, caVars, avVars, htVars>>

\* A call of Write() (TCAHistogram.hpp:36, Histograms.hpp:23):
\* Merge()->Write()
WriteCall ==
    /\ mainPc = "calls"
    /\ cycle < MaxWrites
    /\ LET m == Merge(slots, isMerged)
       IN  /\ slots' = [slots EXCEPT ![0] = m]
           /\ outfile' = m
    /\ isMerged' = TRUE
    /\ cycle' = cycle + 1
    /\ UNCHANGED <<entries, cuts, claimed, pos, lim, handle, processedEntries,
                   lastShown, progressPc, mainPc>>
    /\ UNCHANGED <<det, cc_amp_val, cc_cht_val, cc_xtal_E, cc_xtal_T, fills, soPc>>
    /\ UNCHANGED <<abVars, gmVars, calVars, xbVars, caVars, avVars, htVars>>

NextHistogram == MergeCall \/ WriteCall

SpecHistogram == InitHistogram /\ [][NextHistogram]_vars

----------------------------------------------------------------------------
(* CACrosstalkCorrection::BuildCrosstalkGraph *)

\* Bounds: the bins of the two axes and the greatest count of a bin.  The
\* axes start at 0 and have bins 1 keV wide; energies are in half keV, so
\* that the bin centres are whole numbers.
NumXBins == 3
NumYBins == 3
MaxCount == 2

\* kTargetEnergy (5018.98 keV) and kEnergyWindow (10 keV) brought to the scale
\* of the model's axes, in keV
TargetEnergy == 3
EnergyWindow == 2

\* kMinCountsPerBin (part_003:44)
kMinCountsPerBin == 1

\* TAxis::GetBinCenter, in half keV
GetBinCenter(bin) == 2 * bin - 1

\* TAxis::FindBin of an axis of n bins for a value in half keV: 0 below the
\* axis, n + 1 above it
FindBin(n, v) ==
    IF v < 0 THEN 0 ELSE IF v >= 2 * n THEN n + 1 ELSE (v \div 2) + 1

Max2(a, b) == IF a >= b THEN a ELSE b
Min2(a, b) == IF a <= b THEN a ELSE b

\* yLow and yHigh of x-bin ix (lines 291-292), in half keV
YLow(ix) == Max2(2 * TargetEnergy - EnergyWindow - GetBinCenter(ix), 0)
YHigh(ix) == Max2(2 * TargetEnergy + EnergyWindow - GetBinCenter(ix), 0)

\* iyMin and iyMax of x-bin ix (lines 294-295)
IyMin(ix) == Max2(1, FindBin(NumYBins, YLow(ix)))
IyMax(ix) == Min2(NumYBins, FindBin(NumYBins, YHigh(ix)))

\* The test of line 302: the bin is passed over
SkipsBin(binContent) == binContent < kMinCountsPerBin

\* The loop over iy (lines 299-308): the three sums, from iy on
RECURSIVE SliceSums(_, _, _, _)
SliceSums(hist, ix, iy, sums) ==
    IF iy > IyMax(ix) THEN sums
    ELSE LET binContent == hist[ix][iy]
             energyY == GetBinCenter(iy)
         IN  IF SkipsBin(binContent)
             THEN SliceSums(hist, ix, iy + 1, sums)
             ELSE SliceSums(hist, ix, iy + 1,
                    [sumWeights |-> sums.sumWeights + binContent,
                     sumWeightedEnergyY |->
                        sums.sumWeightedEnergyY + binContent * energyY,
                     sumWeightedEnergyY2 |->
                        sums.sumWeightedEnergyY2
                            + binContent * energyY * energyY])

ZeroSums == [sumWeights |-> 0, sumWeightedEnergyY |-> 0, sumWeightedEnergyY2 |-> 0]

\* The loop over ix (lines 288-321): the points set from x-bin ix on.  A
\* point keeps energyX and the three sums its mean (sumWeightedEnergyY /
\* sumWeights) and its error are computed from.
RECURSIVE GraphFrom(_, _, _)
GraphFrom(hist, ix, points) ==
    IF ix > NumXBins THEN points
    ELSE LET sums == SliceSums(hist, ix, IyMin(ix), ZeroSums)
         IN  IF sums.sumWeights < kMinCountsPerBin
             THEN GraphFrom(hist, ix + 1, points)
             ELSE GraphFrom(hist, ix + 1,
                    Append(points, [energyX |-> GetBinCenter(ix), sums |-> sums]))

BuildCrosstalkGraph(hist) == GraphFrom(hist, 1, <<>>)

InitCrosstalkGraph ==
    /\ AddBackIdle
    /\ GainMatchIdle
    /\ CalIdle
    /\ XtalkBuildIdle
    /\ CAFileIdle
    /\ AddBackVectorIdle
    /\ SorterIdle
    /\ BackgroundIdle
    /\ xgHist \in [1 .. NumXBins -> [1 .. NumYBins -> 0 .. MaxCount]]
    /\ graph = <<>>
    /\ xgPc = "call"

\* One call of BuildCrosstalkGraph
BuildGraph ==
    /\ xgPc = "call"
    /\ graph' = BuildCrosstalkGraph(xgHist)
    /\ xgPc' = "done"
    /\ UNCHANGED <<xgHist, bgBefore, bgHists, bgPc>>
    /\ UNCHANGED <<abVars, gmVars, calVars, xbVars, caVars, avVars, soVars>>

NextCrosstalkGraph == BuildGraph

SpecCrosstalkGraph == InitCrosstalkGraph /\ [][NextCrosstalkGraph]_vars

----------------------------------------------------------------------------
(* GainMatch: BackgroundSubtraction *)

\* Bound: the amplitude bins of a histogram (its channel bins are the
\* NumChannels channels)
NumAmpBins == 3

\* The bins of the two axes with their underflow and overflow bins
AmpBins == 0 .. NumAmpBins + 1
ChanBins == 0 .. NumChannels + 1

\* hist->ProjectionX("_px", ybin, ybin) (line 54): the contents of the bins of
\* channel bin ybin, underflow and overflow of the amplitude axis included
ProjectionX(hist, ybin) == [j \in AmpBins |-> hist[j][ybin]]

\* spectrum_utility->Background(proj, ...) (line 55): the estimated smooth
\* background of the bins 1 .. NumAmpBins.  The estimator of the library is
\* modelled by one clipping pass, which cuts a bin down to the mean of its
\* two neighbours.
Background(proj) ==
    [j \in AmpBins |->
        IF j = 0 \/ j = NumAmpBins + 1 THEN 0
        ELSE IF j = 1 \/ j = NumAmpBins THEN proj[j]
        ELSE Min2(proj[j], (proj[j - 1] + proj[j + 1]) \div 2)]

\* proj->Add(bg, -1) (line 56)
Subtracted(proj) == [j \in AmpBins |-> proj[j] - Background(proj)[j]]

\* TH2::GetBin's clamping of a bin number to the bins of an axis of n bins
ClampBin(n, bin) == IF bin < 0 THEN 0 ELSE IF bin > n + 1 THEN n + 1 ELSE bin

\* hist->SetBinContent(binx, biny, content)
SetBinContent(hist, binx, biny, content) ==
    [hist EXCEPT ![ClampBin(NumAmpBins, binx)][ClampBin(NumChannels, biny)] = content]

\* The copy loop of lines 57-58 from j on:
\* hist->SetBinContent(ch + 1, j, proj->GetBinContent(j)) for j <= GetNbinsX()
RECURSIVE CopyBack(_, _, _, _)
CopyBack(hist, ch, proj, j) ==
    IF j > NumAmpBins THEN hist
    ELSE CopyBack(SetBinContent(hist, ch + 1, j, proj[j]), ch, proj, j + 1)

\* One turn of the loop over ch (lines 52-61)
SubtractChannel(hist, ch) ==
    CopyBack(hist, ch, Subtracted(ProjectionX(hist, ch + 1)), 0)

\* The loop over ch from ch on (line 52)
RECURSIVE SubtractFrom(_, _)
SubtractFrom(hist, ch) ==
    IF ch >= NumChannels THEN hist
    ELSE SubtractFrom(SubtractChannel(hist, ch), ch + 1)

\* A histogram with its underflow and overflow bins empty
BgHistograms ==
    {[j \in AmpBins |-> [c \in ChanBins |->
        IF j \in 1 .. NumAmpBins /\ c \in 1 .. NumChannels THEN h[j][c] ELSE 0]] :
     h \in [1 .. NumAmpBins -> [1 .. NumChannels -> {0, MaxCount}]]}

InitBackground ==
    /\ AddBackIdle
    /\ GainMatchIdle
    /\ CalIdle
    /\ XtalkBuildIdle
    /\ CAFileIdle
    /\ AddBackVectorIdle
    /\ SorterIdle
    /\ CrosstalkGraphIdle
    /\ bgBefore \in [Datasets -> BgHistograms]
    /\ bgHists = bgBefore
    /\ bgPc = "call"

\* BackgroundSubtraction(reference_hist, input_hist, spectrum_utility)
BackgroundSubtraction ==
    /\ bgPc = "call"
    /\ bgHists' = [ds \in Datasets |-> SubtractFrom(bgHists[ds], 0)]
    /\ bgPc' = "done"
    /\ UNCHANGED <<bgBefore, xgHist, graph, xgPc>>
    /\ UNCHANGED <<abVars, gmVars, calVars, xbVars, caVars, avVars, soVars>>

NextBackground == BackgroundSubtraction

SpecBackground == InitBackground /\ [][NextBackground]_vars

----------------------------------------------------------------------------
(* C1 *)

\* The crystals the claim sums with primary p: p itself is not among them
Summed(p) ==
    {x \in Xtals \ {p} :
        /\ Gt(xtalE[x], kAddBackThreshold)
        /\ Lt(Fabs(Sub(xtalT[p], xtalT[x])), kAddBackWindow)}

RECURSIVE SumOver(_, _)
SumOver(S, E) ==
    IF S = {} THEN 0
    ELSE LET x == CHOOSE y \in S : TRUE IN E[x] + SumOver(S \ {x}, E)

Reaches(x) == Ge(xtalE[x], kAddBackThreshold)

\* p is a crystal of greatest energy among those that reach the threshold
IsPrimary(p) ==
    /\ Reaches(p)
    /\ \A x \in Xtals : Reaches(x) => xtalE[x] <= xtalE[p]

----------------------------------------------------------------------------
(* C2, C3 *)

\* The (low, high) pairs of list pk whose ratio high / low is within tolerance
InTolerancePairs(pk) ==
    {<<pk[j], pk[i]>> : <<i, j>> \in
        {ij \in (1 .. Len(pk)) \X (1 .. Len(pk)) :
            ij[2] < ij[1] /\ InTolerance(<<pk[ij[1]], pk[ij[2]]>>)}}

\* C2: the pair stored for a channel is, among the pairs within tolerance, one
\* whose ratio high / low is closest to kPeakCentroidRatio.
C2_ClosestPairStored ==
    \A ds \in Datasets : \A ch \in Channels :
        gmPc # "idle" /\ matched_peaks[ds][ch] # ZeroPair =>
            LET mp == matched_peaks[ds][ch]
            IN  /\ mp \in InTolerancePairs(peaks[ds][ch])
                /\ \A q \in InTolerancePairs(peaks[ds][ch]) :
                      ~Closer(<<q[2], q[1]>>, <<mp[2], mp[1]>>)

\* C3: a channel reported unmatched in a dataset gets no refinement fit in that
\* dataset and no gain/offset line.
C3_UnmatchedExcluded ==
    \A um \in unmatched_msgs :
        /\ um \notin fits_run
        /\ \A k \in 1 .. Len(gain_lines) : gain_lines[k].ch # um[2]

----------------------------------------------------------------------------
(* C4, C5, C6 *)

\* The numbers of the file's lines that are neither blank nor comments
DataBearing(file) ==
    {n \in 1 .. Len(file) : file[n].kind \notin {"blank", "comment"}}

\* The first such line (0 when there is none)
FirstDataBearing(file) ==
    IF DataBearing(file) = {} THEN 0
    ELSE CHOOSE n \in DataBearing(file) : \A k \in DataBearing(file) : n <= k

\* The file consists of blank, comment and data lines only
OnlyWellFormedLines(file) == \A n \in 1 .. Len(file) : file[n].kind # "junk"

\* C4: the first non-blank, non-comment line is the one LoadLinearCalParams
\* reads as (offset, slope), and LoadSplineCorrParams never makes a knot of it.
C4_FirstLineIsLinearOnly ==
    (calPc # "idle" /\ OnlyWellFormedLines(calFile)) =>
        LET f == FirstDataBearing(calFile)
        IN  /\ (calPc # "linear" /\ f # 0) =>
                    linear_params = <<calFile[f].x, calFile[f].y>>
            /\ \A k \in 1 .. Len(knots) : knots[k][3] # f

\* The knots a file should give: its "x y" lines from line n on, in order
RECURSIVE KnotLinesFrom(_, _)
KnotLinesFrom(file, n) ==
    IF n > Len(file) THEN <<>>
    ELSE IF file[n].kind = "data"
    THEN <<(<<file[n].x, file[n].y, n>>)>> \o KnotLinesFrom(file, n + 1)
    ELSE KnotLinesFrom(file, n + 1)

\* C5: when line 1 is the "offset slope" line, the knots returned are the
\* later "x y" lines, each once and in file order.
C5_EveryKnotOnce ==
    (calPc = "made" /\ Len(calFile) >= 1 /\ calFile[1].kind = "data") =>
        cal_spline = KnotLinesFrom(calFile, 2)

\* C6: the calibration function adds the spline correction exactly when the
\* linear energy is below kMaxCalibrationEnergy.
C6_SplineBelowMaxEnergy ==
    (calPc = "made" /\ calOut # <<>>) =>
        calOut.energy = IF calOut.lincal_E < kMaxCalibrationEnergy
                        THEN calOut.lincal_E + calOut.spline_corr
                        ELSE calOut.lincal_E

----------------------------------------------------------------------------
(* C7 *)

\* C7: a fit that does not converge gives a result with valid = false, and
\* BuildCrosstalkMatrix then throws: no matrix is returned that was assembled
\* from a fit that did not converge.
C7_NonConvergedFitAborts ==
    /\ \A k \in 1 .. Len(fits) : ~fits[k].converged => ~fits[k].result.valid
    /\ xbPc = "returned" => \A k \in 1 .. Len(fits) : fits[k].converged

----------------------------------------------------------------------------
(* C8, C9, C10 *)

\* C8: every crosstalk matrix held, the one BuildCrosstalkMatrix assembles and
\* each one LoadCrosstalkMatrices returns, has its four diagonal entries equal
\* to 0.
C8_DiagonalAlwaysZero ==
    /\ \A i \in Xtals : xtalkMatrix[i][i] = 0
    /\ \A k \in 1 .. Len(xtalkMatrices) :
        \A i \in Xtals : xtalkMatrices[k][i][i] = Num(0, 0)

\* The crystal indices of the rows of one block, in file order
RowIndices(block) == [r \in 1 .. Len(block) |-> IF Len(block[r]) > 0 THEN block[r][1].w ELSE 0 - 1]

\* A block is four rows, one for each crystal index 0, 1, 2, 3
FourRows(block) ==
    /\ Len(block) = 4
    /\ {RowIndices(block)[r] : r \in 1 .. 4} = Xtals

\* C9: LoadCrosstalkMatrices returns matrices only for a file in which every
\* detector block is exactly four rows, one for each crystal index 0..3.
C9_BlocksOfFourRows ==
    (caConsumer = "xtalk" /\ caPc = "returned")
        => \A k \in 1 .. Len(raw_data) : FourRows(raw_data[k])

\* The data lines of the file read
DataLines == {n \in 1 .. Len(caFile) : caFile[n].kind = "data"}

\* The count of numbers a consumer takes a row to be
RowSize == IF caConsumer = "xtalk" THEN 5 ELSE 3

\* C10: when some data row of the file does not parse to exactly 5 numbers
\* (crosstalk file) or 3 numbers (gain-shift file), the load ends in a throw:
\* it neither returns a list nor ends in another way.
C10_BadRowThrows ==
    (\E n \in DataLines : Len(ParseRow(caFile[n].toks)) # RowSize)
        => caPc \in {"read", "load", "threw"}

----------------------------------------------------------------------------
(* C11 *)

\* Ten decimals hold the value
Representable(d) == d.g = 0

AllRepresentable(ms) ==
    \A k \in 1 .. Len(ms) : \A i \in Xtals, j \in Xtals : Representable(ms[k][i][j])

\* The number a matrix entry is
ValueOf(d) == IF d.neg THEN Num(0 - d.w, 0 - d.f) ELSE Num(d.w, d.f)

\* C11: a list of matrices with representable entries, written by
\* WriteCrosstalkMatrices and read back by LoadCrosstalkMatrices, comes back
\* with the same length, the same order and every entry equal.
C11_WriteLoadRoundTrip ==
    (/\ caFile = WriteCrosstalkMatrices(xtalk_matrices)
     /\ AllRepresentable(xtalk_matrices)
     /\ caPc \in {"returned", "threw", "crashed"})
    => /\ caPc = "returned"
       /\ Len(xtalkMatrices) = Len(xtalk_matrices)
       /\ \A k \in 1 .. Len(xtalk_matrices) : \A i \in Xtals, j \in Xtals :
            xtalkMatrices[k][i][j] = ValueOf(xtalk_matrices[k][i][j])

\* C11's case: two different matrices with negative and non-zero entries,
\* the diagonal included, written and read back
C11_Witness ==
    /\ caPc = "returned"
    /\ Len(xtalk_matrices) = 2
    /\ AllRepresentable(xtalk_matrices)
    /\ xtalk_matrices[1] # xtalk_matrices[2]
    /\ xtalk_matrices[1][1][1].neg
    /\ xtalk_matrices[2][0][1].f # 0
    /\ Len(xtalkMatrices) = 2

----------------------------------------------------------------------------
(* C12, C13 *)

\* The section header lines of a file: its detector blocks
DetectorBlocks(file) == {n \in 1 .. Len(file) : file[n].kind = "section"}

\* E[i] - (M[i][0]*E[0] + M[i][1]*E[1] + M[i][2]*E[2] + M[i][3]*E[3])
Corrected(M, E, i) ==
    SubNum(E[i],
        AddNum(AddNum(AddNum(MulNum(M[i][0], E[0]), MulNum(M[i][1], E[1])),
                      MulNum(M[i][2], E[2])),
               MulNum(M[i][3], E[3])))

\* C12: MakeCorrections returns one closure per detector block of the file,
\* in file order, and the closure of detector d maps measured energies E to
\* corrected[i] = E[i] - sum over j of M_d[i][j] * E[j], M_d the matrix loaded
\* for detector d.
C12_ClosurePerDetector ==
    (caConsumer = "xtalk" /\ caPc = "returned") =>
        /\ Len(MakeCorrections(xtalkMatrices)) = Cardinality(DetectorBlocks(caFile))
        /\ corrApplied # <<>> =>
            \A i \in Xtals :
                corrApplied.corrE[i]
                    = Corrected(xtalkMatrices[corrApplied.d], corrApplied.measE, i)

\* C12's case: the closure of the second detector of a file called with
\* energies that its matrix, diagonal entry included, changes
C12_Witness ==
    /\ caPc = "returned"
    /\ corrApplied # <<>>
    /\ corrApplied.d = 2
    /\ xtalkMatrices[2][0][0] # Num(0, 0)
    /\ xtalkMatrices[1] # xtalkMatrices[2]
    /\ ~IsNaNNum(corrApplied.corrE[0])
    /\ corrApplied.corrE[0] # corrApplied.measE[0]

\* C13: the closure built from an all-zero matrix gives every crystal whose
\* measured energy is not NaN exactly its measured energy back, also when
\* other crystals are NaN.
C13_ZeroMatrixIdentity ==
    (corrApplied # <<>> /\ xtalkMatrices[corrApplied.d] = ZeroNumMatrix) =>
        \A i \in Xtals :
            ~IsNaNNum(corrApplied.measE[i])
                => corrApplied.corrE[i] = corrApplied.measE[i]

----------------------------------------------------------------------------
(* C14, C15, C16 *)

\* The first crystal in scan order among those of greatest energy that reach
\* the threshold
FirstPrimary == CHOOSE p \in Xtals : IsPrimary(p) /\ \A q \in Xtals : IsPrimary(q) => p <= q

\* C14: when crystals tie for the greatest energy at or above the threshold,
\* the first of them in scan order is the primary: the sum is the one gated on
\* that crystal's time.
C14_FirstOfTiedIsPrimary ==
    (abPc = "done" /\ \E x \in Xtals : Reaches(x)) =>
        finalE = xtalE[FirstPrimary] + SumOver(Summed(FirstPrimary), xtalE)

\* C15: in the array variant and in the vector variant, whenever a primary is
\* found the value returned includes the primary's energy: it is at least that
\* energy and it is not 0.
C15_PrimaryAlwaysIncluded ==
    /\ (abPc = "done" /\ \E x \in Xtals : Reaches(x)) =>
            finalE # 0 /\ \E p \in Xtals : IsPrimary(p) /\ Ge(finalE, xtalE[p])
    /\ (avPc = "done" /\ highest_energy_index > 0) =>
            /\ final_energy # 0
            /\ Ge(final_energy, crystal_energies[highest_energy_index])

\* The crystals whose energy is NaN
NaNCrystals == {x \in Xtals : IsNaN(xtalE[x])}

\* C16: a crystal whose energy is NaN is never the primary and never summed:
\* the value returned is not NaN, it is the sum of the energies of some
\* crystals that are not NaN (the primary among them when there is one), and
\* it is 0 when all four energies are NaN.
C16_NaNEnergyNeverUsed ==
    abPc = "done" =>
        /\ ~IsNaN(finalE)
        /\ NaNCrystals = Xtals => finalE = 0
        /\ \/ finalE = 0 /\ \A x \in Xtals : ~Reaches(x)
           \/ \E p \in Xtals \ NaNCrystals : \E S \in SUBSET (Xtals \ (NaNCrystals \cup {p})) :
                /\ IsPrimary(p)
                /\ finalE = xtalE[p] + SumOver(S, xtalE)

\* C16's case: two crystals with NaN energy, one of them with a time inside
\* the window, next to a primary and a summed crystal
C16_Witness ==
    /\ abPc = "done"
    /\ Cardinality(NaNCrystals) = 2
    /\ \E p \in Xtals, x \in Xtals \ NaNCrystals, n \in NaNCrystals :
        /\ p # x
        /\ IsPrimary(p)
        /\ x \in Summed(p)
        /\ Lt(Fabs(Sub(xtalT[p], xtalT[n])), kAddBackWindow)
        /\ finalE = xtalE[p] + xtalE[x]

----------------------------------------------------------------------------
(* C17 *)

\* The Fill calls made on histogram h, in order
RECURSIVE FillsOf(_, _)
FillsOf(h, fs) ==
    IF fs = <<>> THEN <<>>
    ELSE (IF Head(fs).hist = h THEN <<Head(fs)>> ELSE <<>>) \o FillsOf(h, Tail(fs))

\* C17: for a detector event that is histogrammed, the add-back energy filled
\* is the add-back sum, the multiplicity filled is the number of crystals that
\* contributed to the sum, and each is one count.
C17_AddBackFill ==
    (soPc = "filled" /\ cc_xtal_E # <<>>) =>
        LET r == AddBackVector(cc_xtal_E, cc_xtal_T)
            abE == FillsOf("cc_abE", fills)
            abM == FillsOf("cc_abM", fills)
        IN  /\ Len(abE) = 1
            /\ abE[1].x = r.final_energy
            /\ abE[1].w = 1
            /\ Len(abM) = 1
            /\ abM[1].x = r.mult
            /\ abM[1].w = 1

----------------------------------------------------------------------------
(* C18 *)

\* The file of the round trip: the linear line "0 1" and the knot line "0 0"
RoundTripFile == <<TextLine(FALSE, "data", 0, 1), TextLine(FALSE, "data", 0, 0)>>

\* C18: the file with the linear line for offset 0, slope 1 and the single
\* knot line (0, 0) loads with exactly that knot, and its calibration returns
\* the raw value plus the spline's value below kMaxCalibrationEnergy and the
\* raw value alone at or above it.
C18_CalibrationRoundTrip ==
    (calPc = "made" /\ calFile = RoundTripFile) =>
        /\ linear_params = <<0, 1>>
        /\ cal_spline = KnotLinesFrom(calFile, 2)
        /\ calOut # <<>> =>
            /\ calOut.lincal_E = calOut.input
            /\ calOut.energy =
                IF calOut.input < kMaxCalibrationEnergy
                THEN calOut.input + calOut.spline_corr
                ELSE calOut.input

----------------------------------------------------------------------------
(* C19, C20 *)

\* The count a single histogram filled with all entries in order has in bin b
SequentialCount(b) == Cardinality({i \in 1 .. Len(entries) : entries[i] = b})

\* C19: whatever the chunks, their assignment to the workers and the order in
\* which the workers finish, the thread-local counts of every bin add up to
\* the count of a sequential fill when the merge is about to happen, and the
\* merged histogram has exactly that count in the bin.
C19_MergeDeterminism ==
    \A b \in Bins :
        /\ (mainPc = "write" /\ ~isMerged) =>
                SumSlots(slots, 0, b) = SequentialCount(b)
        /\ mainPc = "done" =>
                /\ outfile[b] = SequentialCount(b)
                /\ slots[0][b] = outfile[b]

\* C19's case: a bin filled by a pool thread and by another thread, each from
\* a chunk of its own, merged and written
C19_Witness ==
    /\ mainPc = "done"
    /\ Cardinality(ChunkStarts) >= 2
    /\ \E b \in Bins :
        /\ slots[1][b] > 0
        /\ outfile[b] > slots[1][b]

\* C20: main does not get past Process before every worker has finished the
\* fill loop of every chunk, and no histogram is merged or written before
\* Process has returned.
C20_MergeAfterProcess ==
    /\ mainPc \in {"join", "write", "done"} =>
            /\ processedEntries = Len(entries)
            /\ claimed = ChunkStarts
            /\ \A w \in Workers : pos[w] = 0
    /\ (isMerged \/ outfile # <<>>) => mainPc = "done"

\* C20's case: the histogram written after two workers have filled a chunk each
C20_Witness ==
    /\ outfile # <<>>
    /\ isMerged
    /\ Cardinality(claimed) >= 2
    /\ \A w \in Workers : handle[w] = w
    /\ processedEntries = Len(entries)

----------------------------------------------------------------------------
(* C21 *)

\* C21: Write() merges before it writes, and however often Merge() and
\* Write() are called, every bin of the merged and of the written histogram
\* holds the sum of the thread-local counts once: the count of the entries
\* filled into that bin.
C21_WriteIdempotent ==
    \A b \in Bins :
        /\ cycle >= 1 => isMerged /\ outfile[b] = SequentialCount(b)
        /\ isMerged => slots[0][b] = SequentialCount(b)

\* C21's case: the histogram written more than once, a thread other than the
\* main thread having filled it
C21_Witness ==
    /\ mainPc = "calls"
    /\ cycle >= 2
    /\ \E s \in Slots \ {0} : \E b \in Bins : slots[s][b] > 0

----------------------------------------------------------------------------
(* C22 *)

\* The fills made so far, over all threads and bins
RECURSIVE FillsDone(_)
FillsDone(b) ==
    IF b \notin Bins THEN 0 ELSE SumSlots(slots, 0, b) + FillsDone(b + 1)

\* C22: the counter is the number of events processed so far, whatever the
\* interleaving; when all chunks are processed it is the number of entries;
\* DisplayProgressBar has not returned while the counter is below the total;
\* and it does return, and main's join with it.
C22_CounterAndProgress ==
    /\ [](/\ ~isMerged => processedEntries = FillsDone(0)
          /\ mainPc # "process" => processedEntries = Len(entries)
          /\ progressPc = "done" => ~(processedEntries < Len(entries))
          /\ mainPc \in {"write", "done"} => progressPc = "done")
    /\ <>(progressPc = "done")
    /\ <>(mainPc \in {"write", "done"})

\* C22's case: two threads have counted events, the progress thread has shown
\* a count on the way and has returned, and main's join has completed
C22_Witness ==
    /\ mainPc = "write"
    /\ progressPc = "done"
    /\ lastShown > 0
    /\ \A w \in Workers : \E b \in Bins : slots[w][b] > 0
    /\ processedEntries = Len(entries)

----------------------------------------------------------------------------
(* C23 *)

\* C23: during the event loop no two threads hold a handle to the same
\* instance, and every step that changes an instance is a step of the one
\* thread that holds the handle to it and is inside its own callback.
C23_OneThreadPerInstance ==
    /\ [](\A v, w \in Workers :
            (v # w /\ handle[v] # 0 - 1 /\ handle[w] # 0 - 1)
                => handle[v] # handle[w])
    /\ [][mainPc = "process" =>
            \A s \in Slots :
                slots'[s] # slots[s] =>
                    /\ Cardinality({w \in Workers : handle[w] = s}) = 1
                    /\ \A w \in Workers :
                        handle[w] = s => pos[w] # 0 /\ pos'[w] # pos[w]]_vars

\* C23's case: two threads have made fills through their own handles into
\* the same bin, one of them still inside its callback
C23_Witness ==
    /\ mainPc = "process"
    /\ \E v, w \in Workers :
        /\ v # w
        /\ pos[v] # 0
        /\ handle[w] # 0 - 1
        /\ \E b \in Bins : slots[handle[v]][b] > 0 /\ slots[handle[w]][b] > 0

----------------------------------------------------------------------------
(* C24 *)

\* The y-bins of x-bin ix inside the window whose count is strictly greater
\* than kMinCountsPerBin
Contributing(ix) ==
    {iy \in IyMin(ix) .. IyMax(ix) : xgHist[ix][iy] > kMinCountsPerBin}

\* The sum over the y-bins of set S of x-bin ix of count * energyY^k
RECURSIVE WeightedSum(_, _, _)
WeightedSum(ix, S, k) ==
    IF S = {} THEN 0
    ELSE LET iy == CHOOSE y \in S : TRUE
             e == GetBinCenter(iy)
             t == IF k = 0 THEN 1 ELSE IF k = 1 THEN e ELSE e * e
         IN  xgHist[ix][iy] * t + WeightedSum(ix, S \ {iy}, k)

\* C24: the graph has exactly one point for each x-bin with a contributing
\* bin, and the sums behind the point's mean and error are taken over the
\* bins of the window with a count strictly greater than kMinCountsPerBin.
C24_StrictlyGreaterContributes ==
    xgPc = "done" =>
        LET xs == {ix \in 1 .. NumXBins : Contributing(ix) # {}}
        IN  /\ Len(graph) = Cardinality(xs)
            /\ \A ix \in xs :
                \E k \in 1 .. Len(graph) :
                    /\ graph[k].energyX = GetBinCenter(ix)
                    /\ graph[k].sums.sumWeights
                        = WeightedSum(ix, Contributing(ix), 0)
                    /\ graph[k].sums.sumWeightedEnergyY
                        = WeightedSum(ix, Contributing(ix), 1)
                    /\ graph[k].sums.sumWeightedEnergyY2
                        = WeightedSum(ix, Contributing(ix), 2)

----------------------------------------------------------------------------
(* C25 *)

\* C25: after BackgroundSubtraction the bin (amplitude bin j, channel slice c)
\* of each histogram holds the count of the projection of channel c minus the
\* estimated background of bin j, and the turn of the loop for a channel
\* changes no bin outside that channel's slice.
C25_BackgroundSubtractedPerChannel ==
    /\ bgPc = "done" =>
        \A ds \in Datasets : \A c \in 1 .. NumChannels : \A j \in 1 .. NumAmpBins :
            bgHists[ds][j][c] = Subtracted(ProjectionX(bgBefore[ds], c))[j]
    /\ bgPc = "done" =>
        \A ds \in Datasets : \A ch \in Channels :
            \A j \in AmpBins : \A c \in ChanBins :
                c # ch + 1 =>
                    SubtractChannel(bgBefore[ds], ch)[j][c] = bgBefore[ds][j][c]

----------------------------------------------------------------------------
(* C26 *)

\* The crystals of the detector whose amplitude and channel time are not NaN
GoodCrystals == {x \in Xtals : ~IsNaN(cc_amp_val[x]) /\ ~IsNaN(cc_cht_val[x])}

\* The fills of sequence fs made for channel ch (y) on histogram h
FillsOfChannel(h, ch, fs) ==
    LET hs == FillsOf(h, fs)
    IN  {k \in 1 .. Len(hs) : hs[k].y = ch}

\* C26: a channel whose amplitude or channel time is NaN gets no fill in the
\* calibrated-energy histogram, adds no fill to the detector-sum histogram and
\* is not passed to add-back, while the raw amplitude, raw time and pile-up
\* histograms are filled for it; a detector without a non-NaN crystal gets no
\* add-back fill.
C26_NaNChannelRawOnly ==
    soPc = "filled" =>
        /\ \A x \in Xtals \ GoodCrystals :
            LET ch == det * 4 + x
            IN  /\ FillsOfChannel("cc_xtE", ch, fills) = {}
                /\ Cardinality(FillsOfChannel("cc_amp", ch, fills)) = 1
                /\ Cardinality(FillsOfChannel("cc_plu", ch, fills)) = 1
                /\ Cardinality(FillsOfChannel("cc_cht", ch, fills)) = 1
                /\ \E k \in 1 .. Len(fills) :
                    /\ fills[k].hist = "cc_cht"
                    /\ fills[k].y = ch
                    /\ fills[k].x = cc_cht_val[x]
        /\ Len(FillsOf("cc_sum", fills)) = Cardinality(GoodCrystals)
        /\ Len(cc_xtal_E) = Cardinality(GoodCrystals)
        /\ Len(cc_xtal_T) = Cardinality(GoodCrystals)
        /\ \A k \in 1 .. Len(cc_xtal_E) :
            \E x \in GoodCrystals : cc_xtal_E[k] = cc_E_cal(det * 4 + x, cc_amp_val[x])
        /\ GoodCrystals = {} =>
            FillsOf("cc_abE", fills) = <<>> /\ FillsOf("cc_abM", fills) = <<>>

\* C26's case: a detector with a channel whose time alone is NaN, a channel
\* whose amplitude is NaN and a channel with neither NaN, after its fills
C26_Witness ==
    /\ soPc = "filled"
    /\ \E x \in Xtals : ~IsNaN(cc_amp_val[x]) /\ IsNaN(cc_cht_val[x])
    /\ \E x \in Xtals : IsNaN(cc_amp_val[x])
    /\ GoodCrystals # {}
    /\ FillsOf("cc_abE", fills) # <<>>

----------------------------------------------------------------------------
(* C27 *)

\* The reorderings of the four crystals
Permutations4 == {p \in [Xtals -> Xtals] : \A x, y \in Xtals : p[x] = p[y] => x = y}

\* C27: the add-back energy returned for the crystals in any other order,
\* energies and times reordered alike, is the energy returned.
C27_OrderInvariant ==
    abPc = "done" =>
        \A p \in Permutations4 :
            GetAddBackEnergy([x \in Xtals |-> xtalE[p[x]]],
                             [x \in Xtals |-> xtalT[p[x]]]) = finalE

----------------------------------------------------------------------------
(* C28 *)

\* C28: ReadCAFile has never called data.back() while data was empty, whatever
\* the lines of the file.
C28_RowOnlyIntoExistingSection ==
    caPc \in {"load", "returned", "threw", "crashed"} => ~caUB

----------------------------------------------------------------------------
(* C29 *)

\* C29: when MakeCorrections has accepted the gain-shift file, in every module
\* the function at the index of a row's channel number is the function of
\* that row's offset and gain.
C29_GainFunctionAtChannelIndex ==
    (caConsumer = "gain" /\ caPc = "returned") =>
        \A k \in 1 .. Len(raw_data) :
            \A r \in 1 .. Len(raw_data[k]) :
                LET c == raw_data[k][r][1].w
                IN  /\ c + 1 \in 1 .. Len(gainshiftFunctions[k])
                    /\ gainshiftFunctions[k][c + 1]
                        = [offset |-> raw_data[k][r][2], gain |-> raw_data[k][r][3]]

----------------------------------------------------------------------------
(* C30 *)

\* The histograms of the sorter with one y-bin per channel
PerChannelHists == {"cc_amp", "cc_cht", "cc_plu", "cc_xtE"}

\* C30: in one event every per-channel histogram gets at most one fill for a
\* channel, the channel-time histogram cc_cht gets exactly one, and that fill
\* is in the unit of the histogram's axis, nanoseconds.
C30_OneFillPerChannel ==
    soPc = "filled" =>
        \A x \in Xtals :
            LET ch == det * 4 + x
                cht == FillsOf("cc_cht", fills)
            IN  /\ \A h \in PerChannelHists :
                    Cardinality(FillsOfChannel(h, ch, fills)) <= 1
                /\ Cardinality(FillsOfChannel("cc_cht", ch, fills)) = 1
                /\ \A k \in FillsOfChannel("cc_cht", ch, fills) :
                    IsNaN(cc_cht_val[x]) \/ cht[k].x = ChtNs(cc_cht_val[x])

====
